---- MODULE Spec2Model ----
(***************************************************************************)
(* Word-boundary refinement of an ad window (podcast_processor/            *)
(* word_boundary_refiner.py) and its best-effort model-call lifecycle      *)
(* (podcast_processor/llm_model_call_utils.py).                            *)
(*                                                                         *)
(* Strings are sequences of one-character strings.  Times are integers in  *)
(* ticks: one second is TicksPerSecond ticks, chosen so that               *)
(* segment_duration / word_count is exact for every segment of the model.  *)
(***************************************************************************)
EXTENDS Integers, Sequences, FiniteSets, TLC

(***************************************************************************)
(* Bounds of the model                                                     *)
(***************************************************************************)
\* longest transcript (all_segments) handed to refine
MaxSegs == 2

(***************************************************************************)
(* Program constants                                                       *)
(***************************************************************************)
MAX_START_EXTENSION_SECONDS == 30
MAX_END_EXTENSION_SECONDS == 15
\* max_words=4 passed by _estimate_phrase_time to _find_phrase_match
MAX_PHRASE_WORDS == 4

(***************************************************************************)
(* Python values                                                           *)
(***************************************************************************)
\* A JSON / Python value of the payload: None, an int or a str.
PyNone == [t |-> "none", n |-> 0, s |-> <<>>]
PyInt(k) == [t |-> "int", n |-> k, s |-> <<>>]
PyStr(cs) == [t |-> "str", n |-> 0, s |-> cs]

\* The outcome of a call: a value, None, or a raised exception with its text.
Val(x) == [k |-> "val", v |-> x, msg |-> ""]
NoVal == [k |-> "none", v |-> 0, msg |-> ""]
Exc(m) == [k |-> "exc", v |-> 0, msg |-> m]

Max2(a, b) == IF a >= b THEN a ELSE b
Min2(a, b) == IF a <= b THEN a ELSE b

(***************************************************************************)
(* Characters and strings                                                  *)
(***************************************************************************)
Whitespace == {" ", "\n"}
Digits == {"0", "1", "2", "3", "4", "5", "6", "7", "8", "9"}
Lowercase == {"a", "b", "c", "d", "e", "f", "g", "h", "i", "j", "k", "l", "m",
              "n", "o", "p", "q", "r", "s", "t", "u", "v", "w", "x", "y", "z"}
Uppercase == {"A", "B", "C", "D", "E", "F", "G", "H", "I", "J", "K", "L", "M",
              "N", "O", "P", "Q", "R", "S", "T", "U", "V", "W", "X", "Y", "Z"}
Letters == Lowercase \cup Uppercase
\* [A-Za-z0-9'] of _normalize_token
WordChars == Letters \cup Digits \cup {"'"}

LowerChar(c) ==
    CASE c = "A" -> "a" [] c = "B" -> "b" [] c = "C" -> "c" [] c = "D" -> "d"
      [] c = "E" -> "e" [] c = "F" -> "f" [] c = "G" -> "g" [] c = "H" -> "h"
      [] c = "I" -> "i" [] c = "J" -> "j" [] c = "K" -> "k" [] c = "L" -> "l"
      [] c = "M" -> "m" [] c = "N" -> "n" [] c = "O" -> "o" [] c = "P" -> "p"
      [] c = "Q" -> "q" [] c = "R" -> "r" [] c = "S" -> "s" [] c = "T" -> "t"
      [] c = "U" -> "u" [] c = "V" -> "v" [] c = "W" -> "w" [] c = "X" -> "x"
      [] c = "Y" -> "y" [] c = "Z" -> "z"
      [] OTHER -> c
Lower(s) == [i \in 1..Len(s) |-> LowerChar(s[i])]

RECURSIVE LStrip(_, _)
LStrip(s, drop) ==
    IF s # <<>> /\ Head(s) \in drop THEN LStrip(Tail(s), drop) ELSE s

RECURSIVE RStrip(_, _)
RStrip(s, drop) ==
    IF s # <<>> /\ s[Len(s)] \in drop
    THEN RStrip(SubSeq(s, 1, Len(s) - 1), drop) ELSE s

\* str.strip()
Strip(s) == RStrip(LStrip(s, Whitespace), Whitespace)

RECURSIVE LStripNonWord(_)
LStripNonWord(s) ==
    IF s # <<>> /\ Head(s) \notin WordChars THEN LStripNonWord(Tail(s)) ELSE s

RECURSIVE RStripNonWord(_)
RStripNonWord(s) ==
    IF s # <<>> /\ s[Len(s)] \notin WordChars
    THEN RStripNonWord(SubSeq(s, 1, Len(s) - 1)) ELSE s

\* re.sub(r"(^[^A-Za-z0-9']+)|([^A-Za-z0-9']+$)", "", token)
NormalizeToken(token) == RStripNonWord(LStripNonWord(token))

\* re.split(r"\s+", text.strip()) with the empty pieces dropped
RECURSIVE SplitWhitespace(_, _)
SplitWhitespace(s, cur) ==
    IF s = <<>>
    THEN IF cur = <<>> THEN <<>> ELSE <<cur>>
    ELSE IF Head(s) \in Whitespace
         THEN IF cur = <<>>
              THEN SplitWhitespace(Tail(s), <<>>)
              ELSE <<cur>> \o SplitWhitespace(Tail(s), <<>>)
         ELSE SplitWhitespace(Tail(s), Append(cur, Head(s)))

RECURSIVE DropEmpty(_)
DropEmpty(toks) ==
    IF toks = <<>> THEN <<>>
    ELSE IF Head(toks) = <<>> THEN DropEmpty(Tail(toks))
         ELSE <<Head(toks)>> \o DropEmpty(Tail(toks))

SplitWords(text) ==
    LET raw_tokens == SplitWhitespace(Strip(text), <<>>)
        normalized == [i \in 1..Len(raw_tokens) |-> NormalizeToken(raw_tokens[i])]
    IN DropEmpty(normalized)

LowerAll(toks) == [i \in 1..Len(toks) |-> Lower(toks[i])]

\* value of a string of decimal digits
DigitVal(c) ==
    CASE c = "0" -> 0 [] c = "1" -> 1 [] c = "2" -> 2 [] c = "3" -> 3
      [] c = "4" -> 4 [] c = "5" -> 5 [] c = "6" -> 6 [] c = "7" -> 7
      [] c = "8" -> 8 [] OTHER -> 9

RECURSIVE DigitsVal(_, _)
DigitsVal(s, acc) ==
    IF s = <<>> THEN acc ELSE DigitsVal(Tail(s), 10 * acc + DigitVal(Head(s)))

DigitChar(d) ==
    CASE d = 0 -> "0" [] d = 1 -> "1" [] d = 2 -> "2" [] d = 3 -> "3"
      [] d = 4 -> "4" [] d = 5 -> "5" [] d = 6 -> "6" [] d = 7 -> "7"
      [] d = 8 -> "8" [] OTHER -> "9"

RECURSIVE NatToStr(_)
NatToStr(n) ==
    IF n < 10 THEN <<DigitChar(n)>> ELSE Append(NatToStr(n \div 10), DigitChar(n % 10))

\* int(x): an int is itself, a str of digits (blanks around it allowed) is
\* its value, anything else raises (None: TypeError, other text: ValueError).
PyIntOf(x) ==
    CASE x.t = "int" -> Val(x.n)
      [] x.t = "str" ->
           LET body == Strip(x.s)
           IN IF body # <<>> /\ \A i \in 1..Len(body) : body[i] \in Digits
              THEN Val(DigitsVal(body, 0))
              ELSE Exc("ValueError: invalid literal for int()")
      [] OTHER -> Exc("TypeError: int() argument")

\* str(x) of a value that is not None
PyStrOf(x) ==
    CASE x.t = "str" -> x.s
      [] x.t = "int" -> IF x.n < 0 THEN <<"-">> \o NatToStr(-x.n) ELSE NatToStr(x.n)
      [] OTHER -> <<"N", "o", "n", "e">>

\* truth value of a payload value (None, 0 and "" are false)
Truthy(x) ==
    CASE x.t = "none" -> FALSE
      [] x.t = "int" -> x.n # 0
      [] OTHER -> x.s # <<>>

\* `x or ""` followed by str()
StrOrEmpty(x) == IF Truthy(x) THEN PyStrOf(x) ELSE <<>>

HasText(value) ==
    IF value.t = "none" THEN FALSE ELSE Strip(PyStrOf(value)) # <<>>

(***************************************************************************)
(* The transcripts of the model                                            *)
(***************************************************************************)
TxtAB == <<"a", " ", "b">>
TxtBA == <<"b", ".", " ", "A">>
TxtABA == <<"(", "a", " ", "b", " ", " ", "a", "!">>
TxtA == <<"a">>
TxtDots == <<".", ".", ".">>

PoolTexts == {TxtAB, TxtBA, TxtABA, TxtA, TxtDots}
WordCounts == {Len(SplitWords(t)) : t \in PoolTexts} \ {0}
DividesAll(n) == \A c \in WordCounts : n % c = 0
\* ticks per second: the least number every word count of the pool divides
TicksPerSecond == CHOOSE n \in 1..60 : DividesAll(n) /\ \A m \in 1..(n - 1) : ~DividesAll(m)
Sec(s) == s * TicksPerSecond

(***************************************************************************)
(* Transcript segments                                                     *)
(***************************************************************************)
\* start_time of a segment whose "start_time" is None: float() raises on it,
\* and the guarded conversions read it as 0.0
NoTime == 0 - 1

Segment(seq, st, en, txt) ==
    [sequence_num |-> seq, start_time |-> st, end_time |-> en, text |-> txt]

\* float(seg.get("start_time", 0.0)), unguarded
FloatOf(t) ==
    IF t = NoTime THEN Exc("TypeError: float() argument must be a string or a real number")
    ELSE Val(t)

\* the same conversion inside try/except with a default
FloatOr(t, default) == IF FloatOf(t).k = "exc" THEN default ELSE FloatOf(t).v

\* index in all_segments of the segment _find_segment returns, 0 for None
RECURSIVE FirstWithSeq(_, _, _)
FirstWithSeq(all_segments, seq_int, i) ==
    IF i > Len(all_segments) THEN 0
    ELSE IF all_segments[i].sequence_num = seq_int THEN i
         ELSE FirstWithSeq(all_segments, seq_int, i + 1)

FindSegment(all_segments, segment_seq) ==
    IF segment_seq.t = "none" THEN 0
    ELSE IF PyIntOf(segment_seq).k = "exc" THEN 0
         ELSE FirstWithSeq(all_segments, PyIntOf(segment_seq).v, 1)

\* _constrain_start without the bound
ConstrainStartUnbounded(estimated_start, orig_start) == estimated_start

ConstrainStart(estimated_start, orig_start) ==
    Max2(estimated_start, orig_start - Sec(MAX_START_EXTENSION_SECONDS))

ConstrainEnd(estimated_end, orig_end) ==
    Min2(estimated_end, orig_end + Sec(MAX_END_EXTENSION_SECONDS))

\* _estimate_segment_boundary_time giving the start time for either boundary
EstimateSegmentBoundaryTimeStartOnly(all_segments, segment_seq, boundary) ==
    LET i == FindSegment(all_segments, segment_seq)
    IN IF i = 0 THEN NoVal
       ELSE Val(FloatOr(all_segments[i].start_time, 0))

EstimateSegmentBoundaryTime(all_segments, segment_seq, boundary) ==
    LET i == FindSegment(all_segments, segment_seq)
    IN IF i = 0 THEN NoVal
       ELSE LET start_time == FloatOr(all_segments[i].start_time, 0)
                end_time == all_segments[i].end_time
            IN IF boundary = "end" THEN Val(end_time) ELSE Val(start_time)

(***************************************************************************)
(* Phrase matching                                                         *)
(***************************************************************************)
\* all i (1-based) with words[i .. i+k-1] = target
MatchStarts(words, target) ==
    {i \in 1..(Len(words) - Len(target) + 1) :
        SubSeq(words, i, i + Len(target) - 1) = target}

SetMin(S) == CHOOSE x \in S : \A y \in S : x <= y
SetMax(S) == CHOOSE x \in S : \A y \in S : x >= y

\* 0-based (first, last) word indices of the chosen occurrence, or None
FindSubsequence(words, target, choose) ==
    IF target = <<>> \/ Len(target) > Len(words) THEN NoVal
    ELSE LET matches == MatchStarts(words, target)
         IN IF matches = {} THEN NoVal
            ELSE LET i == IF choose = "last" THEN SetMax(matches) ELSE SetMin(matches)
                 IN Val(<<i - 1, i - 1 + Len(target) - 1>>)

RECURSIVE TryPrefixes(_, _, _)
TryPrefixes(words, base, k) ==
    IF k = 0 THEN NoVal
    ELSE LET match == FindSubsequence(words, SubSeq(base, 1, k), "first")
         IN IF match.k = "val" THEN match ELSE TryPrefixes(words, base, k - 1)

RECURSIVE TrySuffixes(_, _, _)
TrySuffixes(words, base, k) ==
    IF k = 0 THEN NoVal
    ELSE LET match == FindSubsequence(words, SubSeq(base, Len(base) - k + 1, Len(base)), "last")
         IN IF match.k = "val" THEN match ELSE TrySuffixes(words, base, k - 1)

\* _find_phrase_match without the cap on the phrase tokens
FindPhraseMatchUncapped(words, phrase_tokens, direction, max_words) ==
    IF words = <<>> \/ phrase_tokens = <<>> THEN NoVal
    ELSE IF direction = "start"
         THEN TryPrefixes(words, phrase_tokens, Len(phrase_tokens))
         ELSE TrySuffixes(words, phrase_tokens, Len(phrase_tokens))

FindPhraseMatch(words, phrase_tokens, direction, max_words) ==
    IF words = <<>> \/ phrase_tokens = <<>> THEN NoVal
    ELSE IF direction = "start"
         THEN LET base == SubSeq(phrase_tokens, 1, Min2(max_words, Len(phrase_tokens)))
              IN TryPrefixes(words, base, Len(base))
         ELSE LET n == Len(phrase_tokens)
                  base == SubSeq(phrase_tokens, Max2(1, n - max_words + 1), n)
              IN TrySuffixes(words, base, Len(base))

\* list.sort(key=int(sequence_num)): stable insertion sort
RECURSIVE InsertBySeq(_, _)
InsertBySeq(sorted, seg) ==
    IF sorted = <<>> THEN <<seg>>
    ELSE IF sorted[Len(sorted)].sequence_num <= seg.sequence_num
         THEN Append(sorted, seg)
         ELSE Append(InsertBySeq(SubSeq(sorted, 1, Len(sorted) - 1), seg),
                     sorted[Len(sorted)])

RECURSIVE SortBySeq(_)
SortBySeq(segs) ==
    IF segs = <<>> THEN <<>>
    ELSE InsertBySeq(SortBySeq(SubSeq(segs, 1, Len(segs) - 1)), segs[Len(segs)])

Reverse(s) == [i \in 1..Len(s) |-> s[Len(s) + 1 - i]]

\* the candidate list with the context left ascending for either direction
PhraseCandidatesAscending(all_segments, context_segments, preferred_segment_seq, direction) ==
    LET p == FindSegment(all_segments, preferred_segment_seq)
        first == IF p = 0 THEN <<>> ELSE <<all_segments[p]>>
        pint == PyIntOf(preferred_segment_seq)
        Keep(seg) == ~(pint.k = "val" /\ seg.sequence_num = pint.v)
    IN first \o SelectSeq(SortBySeq(context_segments), Keep)

\* the candidate list of _estimate_phrase_time, in search order
PhraseCandidates(all_segments, context_segments, preferred_segment_seq, direction) ==
    LET p == FindSegment(all_segments, preferred_segment_seq)
        first == IF p = 0 THEN <<>> ELSE <<all_segments[p]>>
        sorted == SortBySeq(context_segments)
        ordered_context == IF direction = "end" THEN Reverse(sorted) ELSE sorted
        pint == PyIntOf(preferred_segment_seq)
        Keep(seg) == ~(pint.k = "val" /\ seg.sequence_num = pint.v)
    IN first \o SelectSeq(ordered_context, Keep)

\* the loop placing the end boundary one word too late and without the cap
RECURSIVE PhraseTimeLoopOvershoot(_, _, _)
PhraseTimeLoopOvershoot(candidates, phrase_tokens, direction) ==
    IF candidates = <<>> THEN NoVal
    ELSE LET seg == Head(candidates)
             st == FloatOf(seg.start_time)
         IN IF st.k = "exc" THEN st
            ELSE LET start_time == st.v
                     end_time == seg.end_time
                     duration == Max2(0, end_time - start_time)
                     words == LowerAll(SplitWords(seg.text))
                 IN IF words = <<>> \/ duration <= 0
                    THEN PhraseTimeLoopOvershoot(Tail(candidates), phrase_tokens, direction)
                    ELSE LET match == FindPhraseMatch(words, phrase_tokens, direction,
                                                      MAX_PHRASE_WORDS)
                         IN IF match.k # "val"
                            THEN PhraseTimeLoopOvershoot(Tail(candidates), phrase_tokens,
                                                         direction)
                            ELSE IF direction = "start"
                                 THEN Val(start_time + (match.v[1] * duration) \div Len(words))
                                 ELSE Val(start_time
                                          + ((match.v[2] + 2) * duration) \div Len(words))

\* the loop over the candidates: the first match wins, a candidate whose
\* start_time is None raises when the loop reaches it
RECURSIVE PhraseTimeLoop(_, _, _)
PhraseTimeLoop(candidates, phrase_tokens, direction) ==
    IF candidates = <<>> THEN NoVal
    ELSE LET seg == Head(candidates)
             st == FloatOf(seg.start_time)
         IN IF st.k = "exc" THEN st
            ELSE LET start_time == st.v
                     end_time == seg.end_time
                     duration == Max2(0, end_time - start_time)
                     words == LowerAll(SplitWords(seg.text))
                 IN IF words = <<>> \/ duration <= 0
                    THEN PhraseTimeLoop(Tail(candidates), phrase_tokens, direction)
                    ELSE LET match == FindPhraseMatch(words, phrase_tokens, direction,
                                                      MAX_PHRASE_WORDS)
                         IN IF match.k # "val"
                            THEN PhraseTimeLoop(Tail(candidates), phrase_tokens, direction)
                            ELSE IF direction = "start"
                                 THEN Val(Min2(start_time
                                         + (match.v[1] * duration) \div Len(words), end_time))
                                 ELSE Val(Min2(start_time
                                         + ((match.v[2] + 1) * duration) \div Len(words), end_time))

EstimatePhraseTime(all_segments, context_segments, preferred_segment_seq, phrase, direction) ==
    LET phrase_tokens == LowerAll(SplitWords(StrOrEmpty(phrase)))
    IN IF phrase_tokens = <<>> THEN NoVal
       ELSE PhraseTimeLoop(
              PhraseCandidates(all_segments, context_segments, preferred_segment_seq, direction),
              phrase_tokens, direction)

(***************************************************************************)
(* Word-level estimation                                                   *)
(***************************************************************************)
\* _resolve_word_index without the clamp on the explicit index
ResolveWordIndexUnclamped(words, word, occurrence, word_index) ==
    LET target_raw == IF word.t = "none" THEN <<>> ELSE Strip(PyStrOf(word))
        target == Lower(NormalizeToken(target_raw))
        match_indexes == {i \in 1..Len(words) : Lower(words[i]) = target}
        occ == IF occurrence.t = "none" THEN <<>> ELSE Lower(Strip(PyStrOf(occurrence)))
        idx_int == IF PyIntOf(word_index).k = "val" THEN PyIntOf(word_index).v ELSE 0
    IN IF target # <<>> /\ match_indexes # {}
       THEN IF occ = <<"l", "a", "s", "t">>
            THEN SetMax(match_indexes) - 1
            ELSE SetMin(match_indexes) - 1
       ELSE idx_int

\* 0-based index into words
ResolveWordIndex(words, word, occurrence, word_index) ==
    LET target_raw == IF word.t = "none" THEN <<>> ELSE Strip(PyStrOf(word))
        target == Lower(NormalizeToken(target_raw))
        match_indexes == {i \in 1..Len(words) : Lower(words[i]) = target}
        occ == IF occurrence.t = "none" THEN <<>> ELSE Lower(Strip(PyStrOf(occurrence)))
        idx_int == IF PyIntOf(word_index).k = "val" THEN PyIntOf(word_index).v ELSE 0
    IN IF target # <<>> /\ match_indexes # {}
       THEN IF occ = <<"l", "a", "s", "t">>
            THEN SetMax(match_indexes) - 1
            ELSE SetMin(match_indexes) - 1
       ELSE Max2(0, Min2(idx_int, Len(words) - 1))

EstimateWordTime(all_segments, segment_seq, word, occurrence, word_index) ==
    LET i == FindSegment(all_segments, segment_seq)
    IN IF i = 0
       THEN IF all_segments # <<>> THEN FloatOf(all_segments[1].start_time) ELSE Val(0)
       ELSE LET st == FloatOf(all_segments[i].start_time)
            IN IF st.k = "exc" THEN st
               ELSE LET start_time == st.v
                        end_time == all_segments[i].end_time
                        duration == Max2(0, end_time - start_time)
                        words == SplitWords(all_segments[i].text)
                    IN IF words = <<>> \/ duration <= 0 THEN Val(start_time)
                       ELSE LET resolved_index ==
                                    ResolveWordIndex(words, word, occurrence, word_index)
                            IN Val(Min2(start_time
                                   + (resolved_index * duration) \div Len(words), end_time))


(***************************************************************************)
(* Boundary estimation                                                     *)
(***************************************************************************)
\* Optional[str]: None is <<>>, a string x is <<x>>
NoneStr == <<>>
Some(x) == <<x>>

ReasonUnchanged == <<"u", "n", "c", "h", "a", "n", "g", "e", "d">>
ReasonRefined == <<"r", "e", "f", "i", "n", "e", "d">>
ReasonHeuristicFallback ==
    <<"h", "e", "u", "r", "i", "s", "t", "i", "c", "_", "f", "a", "l", "l", "b", "a", "c", "k">>

\* the tuple (time, changed, reason, error) a side returns, or the exception
\* it raises
Side(time, changed, reason, err) ==
    [k |-> "val", time |-> time, changed |-> changed, reason |-> reason,
     err |-> err, msg |-> ""]
SideExc(m) ==
    [k |-> "exc", time |-> 0, changed |-> FALSE, reason |-> <<>>,
     err |-> NoneStr, msg |-> m]

\* `reason or default`
ReasonOr(reason, default) == IF reason # <<>> THEN reason ELSE default

\* a missed start phrase that leaves no error tag
RefineStartPhraseMissUntagged(ad_start, start_reason) ==
    Side(ad_start, FALSE, start_reason, NoneStr)

RefineStartPhraseMiss(ad_start, start_reason) ==
    Side(ad_start, FALSE, start_reason, Some("start_phrase_not_found"))

\* _refine_start going on to the segment boundary when its phrase is found
\* nowhere
RefineStartFallsThrough(ad_start, all_segments, context_segments, start_segment_seq, start_phrase, start_word, start_occurrence, start_word_index, start_reason) ==
    LET estimated_start == EstimatePhraseTime(all_segments, context_segments,
                                              start_segment_seq, start_phrase, "start")
        segment_start == EstimateSegmentBoundaryTime(all_segments, start_segment_seq, "start")
    IN IF HasText(start_phrase) /\ estimated_start.k # "none"
       THEN IF estimated_start.k = "exc" THEN SideExc(estimated_start.msg)
            ELSE Side(ConstrainStart(estimated_start.v, ad_start), TRUE, start_reason, NoneStr)
       ELSE IF segment_start.k = "val"
            THEN LET constrained == ConstrainStart(segment_start.v, ad_start)
                 IN Side(constrained, constrained # ad_start, start_reason, NoneStr)
            ELSE IF HasText(start_word) \/ start_word_index.t # "none"
                 THEN LET estimated_word == EstimateWordTime(all_segments, start_segment_seq,
                                 start_word, start_occurrence, start_word_index)
                      IN IF estimated_word.k = "exc" THEN SideExc(estimated_word.msg)
                         ELSE Side(ConstrainStart(estimated_word.v, ad_start), TRUE,
                                   start_reason, NoneStr)
                 ELSE Side(ad_start, FALSE, ReasonOr(start_reason, ReasonUnchanged), NoneStr)

RefineStart(ad_start, all_segments, context_segments, start_segment_seq, start_phrase, start_word, start_occurrence, start_word_index, start_reason) ==
    IF HasText(start_phrase)
    THEN LET estimated_start == EstimatePhraseTime(all_segments, context_segments,
                                                   start_segment_seq, start_phrase, "start")
         IN CASE estimated_start.k = "exc" -> SideExc(estimated_start.msg)
              [] estimated_start.k = "none" -> RefineStartPhraseMiss(ad_start, start_reason)
              [] OTHER -> Side(ConstrainStart(estimated_start.v, ad_start), TRUE,
                               start_reason, NoneStr)
    ELSE LET segment_start == EstimateSegmentBoundaryTime(all_segments, start_segment_seq,
                                                          "start")
         IN IF segment_start.k = "val"
            THEN LET constrained == ConstrainStart(segment_start.v, ad_start)
                 IN Side(constrained, constrained # ad_start, start_reason, NoneStr)
            ELSE IF HasText(start_word) \/ start_word_index.t # "none"
                 THEN LET estimated_start == EstimateWordTime(all_segments, start_segment_seq,
                                 start_word, start_occurrence, start_word_index)
                      IN IF estimated_start.k = "exc" THEN SideExc(estimated_start.msg)
                         ELSE Side(ConstrainStart(estimated_start.v, ad_start), TRUE,
                                   start_reason, NoneStr)
                 ELSE Side(ad_start, FALSE, ReasonOr(start_reason, ReasonUnchanged), NoneStr)

RefineEndPhraseMiss(ad_end, end_reason) ==
    Side(ad_end, FALSE, end_reason, Some("end_phrase_not_found"))

RefineEnd(ad_end, all_segments, context_segments, end_segment_seq, end_phrase, end_reason) ==
    IF ~HasText(end_phrase)
    THEN LET segment_end == EstimateSegmentBoundaryTime(all_segments, end_segment_seq, "end")
         IN IF segment_end.k = "val"
            THEN LET constrained == ConstrainEnd(segment_end.v, ad_end)
                 IN Side(constrained, constrained # ad_end,
                         ReasonOr(end_reason, ReasonRefined), NoneStr)
            ELSE Side(ad_end, FALSE, ReasonOr(end_reason, ReasonUnchanged), NoneStr)
    ELSE LET estimated_end == EstimatePhraseTime(all_segments, context_segments,
                                                 end_segment_seq, end_phrase, "end")
         IN CASE estimated_end.k = "exc" -> SideExc(estimated_end.msg)
              [] estimated_end.k = "none" -> RefineEndPhraseMiss(ad_end, end_reason)
              [] OTHER -> Side(ConstrainEnd(estimated_end.v, ad_end), TRUE, end_reason, NoneStr)

DefaultReason(reason, changed) ==
    IF reason # <<>> THEN reason
    ELSE IF changed THEN ReasonRefined ELSE ReasonUnchanged

\* partial_errors is the list of the sides' errors that are set
ResultStatus(start_changed, end_changed, partial_errors) ==
    IF partial_errors # <<>> /\ ~start_changed /\ ~end_changed
    THEN "success_heuristic"
    ELSE "success"

\* the returned WordBoundaryRefinement
Refinement(rs, re, sr, er) ==
    [refined_start |-> rs, refined_end |-> re,
     start_adjustment_reason |-> sr, end_adjustment_reason |-> er]

Fallback(ad_start, ad_end) ==
    Refinement(ad_start, ad_end, ReasonHeuristicFallback, ReasonUnchanged)

(***************************************************************************)
(* Context window                                                          *)
(***************************************************************************)
\* the sequence window without the padding before first_seq_num
ContextBySeqWindowUnpadded(all_segments, first_seq_num, last_seq_num) ==
    IF first_seq_num.t = "none" \/ last_seq_num.t = "none" \/ all_segments = <<>>
    THEN <<>>
    ELSE LET seq_values == {all_segments[i].sequence_num : i \in 1..Len(all_segments)}
             start_seq == Max2(SetMin(seq_values), first_seq_num.n)
             end_seq == Min2(SetMax(seq_values), last_seq_num.n + 2)
             InWindow(seg) == start_seq <= seg.sequence_num /\ seg.sequence_num <= end_seq
         IN SelectSeq(all_segments, InWindow)

ContextBySeqWindow(all_segments, first_seq_num, last_seq_num) ==
    IF first_seq_num.t = "none" \/ last_seq_num.t = "none" \/ all_segments = <<>>
    THEN <<>>
    ELSE LET seq_values == {all_segments[i].sequence_num : i \in 1..Len(all_segments)}
             min_seq == SetMin(seq_values)
             max_seq == SetMax(seq_values)
             start_seq == Max2(min_seq, first_seq_num.n - 2)
             end_seq == Min2(max_seq, last_seq_num.n + 2)
             InWindow(seg) == start_seq <= seg.sequence_num /\ seg.sequence_num <= end_seq
         IN SelectSeq(all_segments, InWindow)

SegmentOverlaps(segment, ad_start, ad_end) ==
    LET seg_start == FloatOr(segment.start_time, 0)
        seg_end == segment.end_time
    IN seg_start <= ad_end /\ seg_end >= ad_start

\* list.index(x): 1-based position of the first element equal to x
IndexOf(list, x) == SetMin({i \in 1..Len(list) : list[i] = x})

\* the time overlap returning the overlapping segments alone
ContextByTimeOverlapUnpadded(ad_start, ad_end, all_segments) ==
    LET Overlaps(seg) == SegmentOverlaps(seg, ad_start, ad_end)
    IN SelectSeq(all_segments, Overlaps)

ContextByTimeOverlap(ad_start, ad_end, all_segments) ==
    LET Overlaps(seg) == SegmentOverlaps(seg, ad_start, ad_end)
        ad_segs == SelectSeq(all_segments, Overlaps)
    IN IF ad_segs = <<>> THEN <<>>
       ELSE LET first_idx == IndexOf(all_segments, ad_segs[1]) - 1
                last_idx == IndexOf(all_segments, ad_segs[Len(ad_segs)]) - 1
                start_idx == Max2(0, first_idx - 2)
                end_idx == Min2(Len(all_segments), last_idx + 3)
            IN SubSeq(all_segments, start_idx + 1, end_idx)

GetContext(ad_start, ad_end, all_segments, first_seq_num, last_seq_num) ==
    LET selected == ContextBySeqWindow(all_segments, first_seq_num, last_seq_num)
    IN IF selected # <<>> THEN selected
       ELSE ContextByTimeOverlap(ad_start, ad_end, all_segments)

(***************************************************************************)
(* Response parsing                                                        *)
(*                                                                         *)
(* A response text is given by what the extractor sees of it: the          *)
(* candidates of _json_parse_candidates, each with what json.loads makes   *)
(* of it and of its repaired form, and the fields the partial extraction   *)
(* finds in the raw text.                                                  *)
(***************************************************************************)
\* what json.loads makes of an attempt: a dict, another JSON value, or an error
Loaded(d) == [k |-> "dict", d |-> d]
LoadedOther == [k |-> "other", d |-> <<>>]
LoadError == [k |-> "err", d |-> <<>>]
\* no second attempt: the repair returned None or the candidate itself
NoRepair == [k |-> "skip", d |-> <<>>]

Candidate(strict, repaired) == [strict |-> strict, repaired |-> repaired]
Content(cands, partial) == [cands |-> cands, partial |-> partial]

EmptyDict == <<>>
IsEmptyDict(d) == DOMAIN d = {}
\* dict.get(key): None when the key is absent
Get(d, key) == IF key \in DOMAIN d THEN d[key] ELSE PyNone

ParsedDict(d) == [k |-> "val", d |-> d]
ParsedNone == [k |-> "none", d |-> EmptyDict]

ParseJsonCandidate(candidate) ==
    IF candidate.strict.k = "dict" THEN ParsedDict(candidate.strict.d)
    ELSE IF candidate.repaired.k = "dict" THEN ParsedDict(candidate.repaired.d)
         ELSE ParsedNone

RECURSIVE FirstParsed(_)
FirstParsed(cands) ==
    IF cands = <<>> THEN ParsedNone
    ELSE LET parsed == ParseJsonCandidate(Head(cands))
         IN IF parsed.k # "none" THEN parsed ELSE FirstParsed(Tail(cands))

ParseJson(content) ==
    LET parsed == FirstParsed(content.cands)
    IN IF parsed.k # "none" THEN parsed
       ELSE IF ~IsEmptyDict(content.partial) THEN ParsedDict(content.partial)
            ELSE ParsedNone

\* `not parsed` in refine: None and the empty dict are both false
NotParsed(parsed) == parsed.k = "none" \/ IsEmptyDict(parsed.d)

\* the classification without .lower()
ParseFailureReasonExact(finish_reason) ==
    IF StrOrEmpty(finish_reason) = <<"l", "e", "n", "g", "t", "h">>
    THEN "length"
    ELSE "format"

ParseFailureReason(finish_reason) ==
    IF Lower(StrOrEmpty(finish_reason)) = <<"l", "e", "n", "g", "t", "h">>
    THEN "length"
    ELSE "format"

ExtractPayload(parsed) ==
    LET occurrence == IF Get(parsed, "occurrence").t # "none"
                      THEN Get(parsed, "occurrence")
                      ELSE Get(parsed, "occurance")
    IN [start_segment_seq |-> Get(parsed, "refined_start_segment_seq"),
        start_phrase |-> Get(parsed, "refined_start_phrase"),
        end_segment_seq |-> Get(parsed, "refined_end_segment_seq"),
        end_phrase |-> Get(parsed, "refined_end_phrase"),
        start_word |-> Get(parsed, "refined_start_word"),
        start_occurrence |-> occurrence,
        start_word_index |-> Get(parsed, "refined_start_word_index"),
        start_reason |-> StrOrEmpty(Get(parsed, "start_adjustment_reason")),
        end_reason |-> StrOrEmpty(Get(parsed, "end_adjustment_reason"))]


(***************************************************************************)
(* The response text, character by character                               *)
(***************************************************************************)
Quote == "\""
Backslash == "\\"
\* the backquote character (a TLA+ string cannot hold it)
Backtick == "backquote"

\* the keys _extract_payload reads
PayloadKeys ==
    {"refined_start_segment_seq", "refined_start_phrase", "refined_end_segment_seq",
     "refined_end_phrase", "refined_start_word", "refined_start_word_index",
     "occurrence", "occurance", "start_adjustment_reason", "end_adjustment_reason"}

\* the characters of a key
Chars(key) ==
    CASE key = "refined_start_segment_seq" ->
           <<"r", "e", "f", "i", "n", "e", "d", "_", "s", "t", "a", "r", "t", "_", "s", "e", "g", "m", "e", "n", "t", "_", "s", "e", "q">>
      [] key = "refined_start_phrase" ->
           <<"r", "e", "f", "i", "n", "e", "d", "_", "s", "t", "a", "r", "t", "_", "p", "h", "r", "a", "s", "e">>
      [] key = "refined_end_segment_seq" ->
           <<"r", "e", "f", "i", "n", "e", "d", "_", "e", "n", "d", "_", "s", "e", "g", "m", "e", "n", "t", "_", "s", "e", "q">>
      [] key = "refined_end_phrase" ->
           <<"r", "e", "f", "i", "n", "e", "d", "_", "e", "n", "d", "_", "p", "h", "r", "a", "s", "e">>
      [] key = "refined_start_word" ->
           <<"r", "e", "f", "i", "n", "e", "d", "_", "s", "t", "a", "r", "t", "_", "w", "o", "r", "d">>
      [] key = "refined_start_word_index" ->
           <<"r", "e", "f", "i", "n", "e", "d", "_", "s", "t", "a", "r", "t", "_", "w", "o", "r", "d", "_", "i", "n", "d", "e", "x">>
      [] key = "occurrence" ->
           <<"o", "c", "c", "u", "r", "r", "e", "n", "c", "e">>
      [] key = "occurance" ->
           <<"o", "c", "c", "u", "r", "a", "n", "c", "e">>
      [] key = "start_adjustment_reason" ->
           <<"s", "t", "a", "r", "t", "_", "a", "d", "j", "u", "s", "t", "m", "e", "n", "t", "_", "r", "e", "a", "s", "o", "n">>
      [] key = "end_adjustment_reason" ->
           <<"e", "n", "d", "_", "a", "d", "j", "u", "s", "t", "m", "e", "n", "t", "_", "r", "e", "a", "s", "o", "n">>
      [] OTHER -> <<>>

\* the dict key of a member name; the names refine never reads share one key
KeyOf(name) ==
    IF \E k \in PayloadKeys : Chars(k) = name
    THEN CHOOSE k \in PayloadKeys : Chars(k) = name
    ELSE "other"

\* d[key] = value
Put(d, key, value) ==
    [x \in DOMAIN d \cup {key} |-> IF x = key THEN value ELSE d[x]]

\* a bool, a list or a nested object as a member's value
PyOther == [t |-> "other", n |-> 0, s |-> <<>>]
PyDict(d) == [t |-> "dict", n |-> 0, s |-> <<>>, d |-> d]
MemberValue(v) == IF v.t = "dict" THEN PyOther ELSE v

\* the character at position i (1-based), "" outside the text
At(t, i) == IF i >= 1 /\ i <= Len(t) THEN t[i] ELSE ""
StartsWithAt(t, i, pat) ==
    i >= 1 /\ i + Len(pat) - 1 <= Len(t) /\ SubSeq(t, i, i + Len(pat) - 1) = pat

MinOf(S) == CHOOSE x \in S : \A y \in S : x <= y
MaxOf(S) == CHOOSE x \in S : \A y \in S : x >= y

\* the first position >= i whose character is not in cs (Len(t) + 1 at most)
SkipChars(t, i, cs) == MinOf({j \in i..(Len(t) + 1) : At(t, j) \notin cs} \cup {Max2(i, Len(t) + 1)})
SkipWs(t, i) == SkipChars(t, i, Whitespace)
DigitsEnd(t, i) == SkipChars(t, i, Digits)

\* json.loads, for objects, arrays, strings (escapes \" \\ \/ \n), integers,
\* null, true and false: a scan returns the value and the position after it
ScanFail == [ok |-> FALSE, v |-> PyNone, next |-> 0]
ScanOk(v, next) == [ok |-> TRUE, v |-> v, next |-> next]

\* the string whose opening quote is before position i
RECURSIVE ScanString(_, _, _)
ScanString(t, i, acc) ==
    CASE i > Len(t) -> ScanFail
      [] t[i] = Quote -> ScanOk(PyStr(acc), i + 1)
      [] t[i] = "\n" -> ScanFail
      [] t[i] = Backslash ->
           IF At(t, i + 1) \in {Quote, Backslash, "/"}
           THEN ScanString(t, i + 2, Append(acc, t[i + 1]))
           ELSE IF At(t, i + 1) = "n" THEN ScanString(t, i + 2, Append(acc, "\n"))
                ELSE ScanFail
      [] OTHER -> ScanString(t, i + 1, Append(acc, t[i]))

ScanInt(t, i) ==
    LET neg == At(t, i) = "-"
        b == IF neg THEN i + 1 ELSE i
        e == IF At(t, b) = "0" THEN b + 1 ELSE DigitsEnd(t, b)
    IN IF e = b \/ At(t, e) \in {".", "e", "E"} THEN ScanFail
       ELSE ScanOk(PyInt((IF neg THEN 0 - 1 ELSE 1) * DigitsVal(SubSeq(t, b, e - 1), 0)), e)

RECURSIVE ScanValue(_, _)
RECURSIVE ScanMembers(_, _, _)
RECURSIVE ScanElements(_, _)
ScanValue(t, i) ==
    CASE At(t, i) = Quote -> ScanString(t, i + 1, <<>>)
      [] At(t, i) = "{" ->
           IF At(t, SkipWs(t, i + 1)) = "}"
           THEN ScanOk(PyDict(<<>>), SkipWs(t, i + 1) + 1)
           ELSE ScanMembers(t, SkipWs(t, i + 1), <<>>)
      [] At(t, i) = "[" ->
           IF At(t, SkipWs(t, i + 1)) = "]"
           THEN ScanOk(PyOther, SkipWs(t, i + 1) + 1)
           ELSE ScanElements(t, SkipWs(t, i + 1))
      [] At(t, i) = "-" \/ At(t, i) \in Digits -> ScanInt(t, i)
      [] StartsWithAt(t, i, <<"n", "u", "l", "l">>) -> ScanOk(PyNone, i + 4)
      [] StartsWithAt(t, i, <<"t", "r", "u", "e">>) -> ScanOk(PyOther, i + 4)
      [] StartsWithAt(t, i, <<"f", "a", "l", "s", "e">>) -> ScanOk(PyOther, i + 5)
      [] OTHER -> ScanFail

\* "name": value pairs up to the closing brace; a repeated name keeps the
\* last value
ScanMembers(t, i, acc) ==
    IF At(t, i) # Quote THEN ScanFail
    ELSE LET name == ScanString(t, i + 1, <<>>)
         IN IF ~name.ok \/ At(t, SkipWs(t, name.next)) # ":" THEN ScanFail
            ELSE LET val == ScanValue(t, SkipWs(t, SkipWs(t, name.next) + 1))
                 IN IF ~val.ok THEN ScanFail
                    ELSE LET d == Put(acc, KeyOf(name.v.s), MemberValue(val.v))
                             e == SkipWs(t, val.next)
                         IN CASE At(t, e) = "}" -> ScanOk(PyDict(d), e + 1)
                              [] At(t, e) = "," -> ScanMembers(t, SkipWs(t, e + 1), d)
                              [] OTHER -> ScanFail

ScanElements(t, i) ==
    LET val == ScanValue(t, i)
    IN IF ~val.ok THEN ScanFail
       ELSE LET e == SkipWs(t, val.next)
            IN CASE At(t, e) = "]" -> ScanOk(PyOther, e + 1)
                 [] At(t, e) = "," -> ScanElements(t, SkipWs(t, e + 1))
                 [] OTHER -> ScanFail

JsonLoads(text) ==
    LET v == ScanValue(text, SkipWs(text, 1))
    IN IF ~v.ok \/ SkipWs(text, v.next) # Len(text) + 1 THEN LoadError
       ELSE IF v.v.t = "dict" THEN Loaded(v.v.d) ELSE LoadedOther

\* first position >= i holding one of cs, 0 if none
IndexOfAny(t, cs, i) ==
    LET found == {j \in Max2(i, 1)..Len(t) : t[j] \in cs}
    IN IF found = {} THEN 0 ELSE MinOf(found)

\* first position >= i holding c, 0 if none
IndexFrom(t, c, i) == IndexOfAny(t, {c}, i)

\* last position <= i holding c, 0 if none
LastIndexUpTo(t, c, i) ==
    LET found == {j \in 1..Min2(i, Len(t)) : t[j] = c}
    IN IF found = {} THEN 0 ELSE MaxOf(found)

\* last position <= i that is not whitespace; a position below 1 is itself
BackWs(t, i) ==
    IF i < 1 THEN i
    ELSE MaxOf({j \in 0..i : At(t, j) \notin Whitespace})

\* text.count(c)
CountChar(t, c) == Cardinality({j \in 1..Len(t) : t[j] = c})

Repeat(c, n) == [i \in 1..n |-> c]

\* a fence marker ``` and its optional tag json (any case)
Fence == <<Backtick, Backtick, Backtick>>
IsFenceAt(t, i) == StartsWithAt(t, i, Fence)
HasTagAt(t, i) ==
    i + 3 <= Len(t) /\ Lower(SubSeq(t, i, i + 3)) = <<"j", "s", "o", "n">>
AfterFence(t, i) == IF HasTagAt(t, i + 3) THEN i + 7 ELSE i + 3

\* re.sub(r"```(?:json)?|```", "", text, flags=re.IGNORECASE), from i on
\* first position >= i where a fence marker begins, 0 if none
FindFence(t, i) ==
    LET found == {j \in Max2(i, 1)..Len(t) : IsFenceAt(t, j)}
    IN IF found = {} THEN 0 ELSE MinOf(found)

RECURSIVE RemoveFences(_, _)
RemoveFences(t, i) ==
    LET open == FindFence(t, i)
    IN IF open = 0 THEN SubSeq(t, i, Len(t))
       ELSE SubSeq(t, i, open - 1) \o RemoveFences(t, AfterFence(t, open))

\* the non-blank groups of re.finditer(r"```(?:json)?\s*(.*?)```", text), from
\* i on, stripped
RECURSIVE FencedBlocks(_, _)
FencedBlocks(t, i) ==
    LET open == FindFence(t, i)
        body == SkipWs(t, AfterFence(t, open))
        close == FindFence(t, body)
        block == Strip(SubSeq(t, body, close - 1))
    IN IF open = 0 \/ close = 0 THEN <<>>
       ELSE (IF block # <<>> THEN <<block>> ELSE <<>>) \o FencedBlocks(t, close + 3)

\* the first position >= i holding one of cs, the end of the text if none
NextOfAny(t, cs, i) ==
    IF IndexOfAny(t, cs, i) = 0 THEN Len(t) + 1 ELSE IndexOfAny(t, cs, i)

\* _extract_json_objects: the loop over the characters from idx on;
\* start_idx = 0 stands for None; the characters that leave the loop's
\* variables alone are passed over in one step
RECURSIVE ExtractJsonObjectsFrom(_, _, _, _, _, _)
\* the scanner without its escaped state: a quote after a backslash ends the
\* string
RECURSIVE ExtractJsonObjectsFromUnescaped(_, _, _, _, _, _)
ExtractJsonObjectsFromUnescaped(text, idx, depth, start_idx, in_string, escaped) ==
    IF idx > Len(text) THEN <<>>
    ELSE LET char == text[idx]
         IN CASE in_string /\ char = Quote ->
                   ExtractJsonObjectsFromUnescaped(text, idx + 1, depth, start_idx, FALSE, FALSE)
              [] in_string /\ char # Quote ->
                   ExtractJsonObjectsFromUnescaped(text, idx + 1, depth, start_idx, TRUE, FALSE)
              [] ~in_string /\ char = Quote ->
                   ExtractJsonObjectsFromUnescaped(text, idx + 1, depth, start_idx, TRUE, FALSE)
              [] ~in_string /\ char = "{" ->
                   ExtractJsonObjectsFromUnescaped(text, idx + 1, depth + 1,
                                                   IF depth = 0 THEN idx ELSE start_idx,
                                                   FALSE, FALSE)
              [] ~in_string /\ char = "}" /\ depth = 1 /\ start_idx # 0 ->
                   <<SubSeq(text, start_idx, idx)>>
                   \o ExtractJsonObjectsFromUnescaped(text, idx + 1, 0, 0, FALSE, FALSE)
              [] ~in_string /\ char = "}" /\ depth >= 1 /\ ~(depth = 1 /\ start_idx # 0) ->
                   ExtractJsonObjectsFromUnescaped(text, idx + 1, depth - 1, start_idx,
                                                   FALSE, FALSE)
              [] OTHER ->
                   ExtractJsonObjectsFromUnescaped(text, idx + 1, depth, start_idx, FALSE, FALSE)

ExtractJsonObjectsFrom(text, idx, depth, start_idx, in_string, escaped) ==
    IF idx > Len(text) THEN <<>>
    ELSE LET char == text[idx]
         IN CASE in_string /\ escaped ->
                   ExtractJsonObjectsFrom(text, idx + 1, depth, start_idx, TRUE, FALSE)
              [] in_string /\ ~escaped /\ char = Backslash ->
                   ExtractJsonObjectsFrom(text, idx + 1, depth, start_idx, TRUE, TRUE)
              [] in_string /\ ~escaped /\ char = Quote ->
                   ExtractJsonObjectsFrom(text, idx + 1, depth, start_idx, FALSE, escaped)
              [] in_string /\ ~escaped /\ char \notin {Backslash, Quote} ->
                   ExtractJsonObjectsFrom(text, NextOfAny(text, {Backslash, Quote}, idx + 1),
                                          depth, start_idx, TRUE, escaped)
              [] ~in_string /\ char = Quote ->
                   ExtractJsonObjectsFrom(text, idx + 1, depth, start_idx, TRUE, escaped)
              [] ~in_string /\ char = "{" ->
                   ExtractJsonObjectsFrom(text, idx + 1, depth + 1,
                                          IF depth = 0 THEN idx ELSE start_idx,
                                          FALSE, escaped)
              [] ~in_string /\ char = "}" /\ depth = 1 /\ start_idx # 0 ->
                   <<SubSeq(text, start_idx, idx)>>
                   \o ExtractJsonObjectsFrom(text, idx + 1, 0, 0, FALSE, escaped)
              [] ~in_string /\ char = "}" /\ depth >= 1 /\ ~(depth = 1 /\ start_idx # 0) ->
                   ExtractJsonObjectsFrom(text, idx + 1, depth - 1, start_idx, FALSE, escaped)
              [] OTHER ->
                   ExtractJsonObjectsFrom(text, NextOfAny(text, {Quote, "{", "}"}, idx + 1),
                                          depth, start_idx, FALSE, escaped)

ExtractJsonObjects(text) == ExtractJsonObjectsFrom(text, 1, 0, 0, FALSE, FALSE)

\* _dedupe_preserve_order, with the values seen so far
RECURSIVE DedupePreserveOrder(_, _)
DedupePreserveOrder(values, seen) ==
    IF values = <<>> THEN <<>>
    ELSE LET normalized == Strip(Head(values))
         IN IF normalized = <<>> \/ normalized \in seen
            THEN DedupePreserveOrder(Tail(values), seen)
            ELSE <<normalized>>
                 \o DedupePreserveOrder(Tail(values), seen \cup {normalized})

RECURSIVE Expand(_)
\* each candidate followed by the objects found in it
Expand(candidates) ==
    IF candidates = <<>> THEN <<>>
    ELSE <<Head(candidates)>> \o ExtractJsonObjects(Head(candidates))
         \o Expand(Tail(candidates))

JsonParseCandidates(content) ==
    LET text == Strip(content)
        unfenced == Strip(RemoveFences(text, 1))
        candidates == <<text>> \o FencedBlocks(text, 1)
                      \o (IF unfenced # <<>> THEN <<unfenced>> ELSE <<>>)
    IN IF text = <<>> THEN <<>> ELSE DedupePreserveOrder(Expand(candidates), {})

\* the comma that, with blanks only in between, precedes position q; 0 if
\* there is none
CommaBefore(t, q) ==
    IF q >= 1 /\ At(t, BackWs(t, q - 1)) = "," THEN BackWs(t, q - 1) ELSE 0

\* re.sub(r',\s*"[^"]*$', "", t): a dangling key without its closing quote
DropOpenKey(t) ==
    LET c == CommaBefore(t, LastIndexUpTo(t, Quote, Len(t)))
    IN IF c > 0 THEN SubSeq(t, 1, c - 1) ELSE t

\* re.sub(r',\s*"[^"]*"$', "", t): a dangling key; $ is the end of the text
\* or the place before a newline that ends it
DropKey(t) ==
    LET e == CASE At(t, Len(t)) = Quote -> Len(t)
               [] At(t, Len(t)) = "\n" /\ At(t, Len(t) - 1) = Quote -> Len(t) - 1
               [] OTHER -> 0
        c == CommaBefore(t, LastIndexUpTo(t, Quote, e - 1))
    IN IF e > 0 /\ c > 0 THEN SubSeq(t, 1, c - 1) \o SubSeq(t, e + 1, Len(t)) ELSE t

\* the comma opening `, "key" :` when the colon is at position k; 0 if the
\* text before k is not of that form
CommaOfKeyColon(t, k) ==
    IF At(t, k) = ":" /\ At(t, BackWs(t, k - 1)) = Quote
    THEN CommaBefore(t, LastIndexUpTo(t, Quote, BackWs(t, k - 1) - 1))
    ELSE 0

\* re.sub(r',\s*"[^"]*"\s*:\s*$', "", t): a key and its colon, no value
DropKeyColon(t) ==
    LET c == CommaOfKeyColon(t, BackWs(t, Len(t)))
    IN IF c > 0 THEN SubSeq(t, 1, c - 1) ELSE t

\* re.sub(r',\s*"[^"]*"\s*:\s*"[^"]*$', "", t): a string value left open
DropOpenValue(t) ==
    LET q == LastIndexUpTo(t, Quote, Len(t))
        c == IF q > 0 THEN CommaOfKeyColon(t, BackWs(t, q - 1)) ELSE 0
    IN IF c > 0 THEN SubSeq(t, 1, c - 1) ELSE t

\* _repair_truncated_json: None or the repaired text
RepairTruncatedJson(candidate) ==
    LET text == Strip(candidate)
        start_idx == IndexFrom(text, "{", 1)
        unfenced == Strip(RemoveFences(SubSeq(text, start_idx, Len(text)), 1))
        dropped == DropOpenValue(DropKeyColon(DropKey(DropOpenKey(RStrip(unfenced, {","})))))
        open_brackets == CountChar(dropped, "[")
        close_brackets == CountChar(dropped, "]")
        bracketed == IF close_brackets < open_brackets
                     THEN dropped \o Repeat("]", open_brackets - close_brackets)
                     ELSE dropped
        open_braces == CountChar(bracketed, "{")
        close_braces == CountChar(bracketed, "}")
        repaired == IF close_braces < open_braces
                    THEN bracketed \o Repeat("}", open_braces - close_braces)
                    ELSE bracketed
    IN IF text = <<>> \/ start_idx = 0 \/ repaired = <<>> THEN NoVal ELSE Val(repaired)

\* the two attempts of _parse_json_candidate on a candidate text
CandidateOf(candidate) ==
    LET repaired == RepairTruncatedJson(candidate)
    IN Candidate(JsonLoads(candidate),
                 IF repaired.k = "val" /\ repaired.v # candidate
                 THEN JsonLoads(repaired.v) ELSE NoRepair)

\* where the value begins when `"key" \s* : \s*` (key in any case) begins
\* at position i; 0 when it does not
ValueAfterKey(t, i, key) ==
    LET pat == <<Quote>> \o Chars(key) \o <<Quote>>
        colon == SkipWs(t, i + Len(pat))
    IN IF /\ At(t, i) = Quote
          /\ i + Len(pat) - 1 <= Len(t)
          /\ Lower(SubSeq(t, i, i + Len(pat) - 1)) = pat
          /\ At(t, colon) = ":"
       THEN SkipWs(t, colon + 1)
       ELSE 0

IsNullAt(t, v) == v + 3 <= Len(t) /\ Lower(SubSeq(t, v, v + 3)) = <<"n", "u", "l", "l">>

\* the position after -?\d+ at v; 0 when no such number is at v
IntEndAt(t, v) ==
    LET b == IF At(t, v) = "-" THEN v + 1 ELSE v
    IN IF DigitsEnd(t, b) > b THEN DigitsEnd(t, b) ELSE 0

\* re.search(rf'"{key}"\s*:\s*(null|-?\d+)', text, re.IGNORECASE) from i on:
\* the position of the group, 0 without a match
SearchIntOrNull(t, key, i) ==
    LET matches == {j \in i..Len(t) :
                       LET v == ValueAfterKey(t, j, key)
                       IN v # 0 /\ (IsNullAt(t, v) \/ IntEndAt(t, v) # 0)}
    IN IF matches = {} THEN 0 ELSE ValueAfterKey(t, MinOf(matches), key)

\* a sequence field read without telling null from absent
ExtractIntOrNullCollapsed(t, key) ==
    LET v == SearchIntOrNull(t, key, 1)
        b == IF At(t, v) = "-" THEN v + 1 ELSE v
    IN CASE v = 0 -> NoVal
         [] IsNullAt(t, v) -> NoVal
         [] OTHER -> Val(PyInt((IF At(t, v) = "-" THEN 0 - 1 ELSE 1)
                                 * DigitsVal(SubSeq(t, b, IntEndAt(t, v) - 1), 0)))

\* a sequence field of the partial payload: absent, None or an int
ExtractIntOrNull(t, key) ==
    LET v == SearchIntOrNull(t, key, 1)
        b == IF At(t, v) = "-" THEN v + 1 ELSE v
    IN CASE v = 0 -> NoVal
         [] IsNullAt(t, v) -> Val(PyNone)
         [] OTHER -> Val(PyInt((IF At(t, v) = "-" THEN 0 - 1 ELSE 1)
                                 * DigitsVal(SubSeq(t, b, IntEndAt(t, v) - 1), 0)))

\* re.search(rf'"{key}"\s*:\s*"([^"]*)"', text, re.IGNORECASE | re.DOTALL)
\* from i on: the position of the value's opening quote, 0 without a match
SearchString(t, key, i) ==
    LET matches == {j \in i..Len(t) :
                       LET v == ValueAfterKey(t, j, key)
                       IN v # 0 /\ At(t, v) = Quote /\ IndexFrom(t, Quote, v + 1) # 0}
    IN IF matches = {} THEN 0 ELSE ValueAfterKey(t, MinOf(matches), key)

\* a phrase or reason field of the partial payload: absent or a non-empty str
ExtractString(t, key) ==
    LET v == SearchString(t, key, 1)
        value == Strip(SubSeq(t, v + 1, IndexFrom(t, Quote, v + 1) - 1))
    IN IF v = 0 \/ value = <<>> THEN NoVal ELSE Val(PyStr(value))

PutIfFound(d, key, found) == IF found.k = "val" THEN Put(d, key, found.v) ELSE d

ParsePartialJsonFields(content) ==
    LET d1 == PutIfFound(<<>>, "refined_start_segment_seq",
                         ExtractIntOrNull(content, "refined_start_segment_seq"))
        d2 == PutIfFound(d1, "refined_end_segment_seq",
                         ExtractIntOrNull(content, "refined_end_segment_seq"))
        d3 == PutIfFound(d2, "refined_start_phrase",
                         ExtractString(content, "refined_start_phrase"))
        d4 == PutIfFound(d3, "refined_end_phrase",
                         ExtractString(content, "refined_end_phrase"))
        d5 == PutIfFound(d4, "start_adjustment_reason",
                         ExtractString(content, "start_adjustment_reason"))
    IN PutIfFound(d5, "end_adjustment_reason",
                  ExtractString(content, "end_adjustment_reason"))

\* what _parse_json sees of a text: the load outcomes of its candidates and
\* the partial payload
ContentOf(content) ==
    LET candidates == JsonParseCandidates(content)
    IN Content([i \in 1..Len(candidates) |-> CandidateOf(candidates[i])],
               ParsePartialJsonFields(content))


(***************************************************************************)
(* Inputs of the model                                                     *)
(***************************************************************************)
SegmentPool ==
    {Segment(0, Sec(0), Sec(10), TxtAB),
     Segment(1, Sec(10), Sec(12), TxtBA),
     Segment(1, Sec(10), Sec(10), TxtA),
     Segment(2, Sec(12), Sec(60), TxtABA),
     Segment(2, NoTime, Sec(60), TxtA),
     Segment(2, Sec(12), Sec(20), TxtDots)}

\* transcripts: sequence numbers strictly increasing
Transcripts ==
    UNION {{t \in [1..n -> SegmentPool] :
               \A i \in 1..(n - 1) : t[i].sequence_num < t[i + 1].sequence_num}
           : n \in 0..MaxSegs}

\* (ad_start, ad_end) in seconds, ad_end > ad_start
AdWindows == {<<10, 12>>, <<40, 50>>, <<35, 40>>}

\* (post_id, first_seq_num, last_seq_num)
Requests ==
    {<<PyNone, PyNone, PyNone>>,
     <<PyInt(99), PyNone, PyNone>>,
     <<PyInt(99), PyInt(1), PyInt(1)>>}

PhA == PyStr(<<"a">>)
PhBA == PyStr(<<"B", " ", "a", ",">>)
PhZ == PyStr(<<"z">>)
PhDots == PyStr(<<".", ".">>)
PhBlank == PyStr(<<" ">>)
ReasonR == PyStr(<<"r">>)

StartSides ==
    {EmptyDict,
     [refined_start_segment_seq |-> PyInt(0)],
     [refined_start_segment_seq |-> PyInt(2)],
     [refined_start_segment_seq |-> PyInt(7)],
     [refined_start_phrase |-> PhA],
     [refined_start_segment_seq |-> PyInt(2), refined_start_phrase |-> PhBA],
     [refined_start_segment_seq |-> PyNone, refined_start_phrase |-> PhZ],
     [refined_start_segment_seq |-> PyInt(1), refined_start_phrase |-> PhDots],
     [refined_start_segment_seq |-> PyInt(1), refined_start_phrase |-> PhBlank],
     [refined_start_word |-> PhA, occurance |-> PyStr(<<"l", "a", "s", "t">>)],
     [refined_start_segment_seq |-> PyInt(7), refined_start_word_index |-> PyInt(1)],
     [refined_start_segment_seq |-> PyInt(2), refined_start_word_index |-> PyInt(1)],
     [refined_start_phrase |-> PhA, start_adjustment_reason |-> ReasonR]}

EndSides ==
    {EmptyDict,
     [refined_end_segment_seq |-> PyInt(0)],
     [refined_end_segment_seq |-> PyInt(1)],
     [refined_end_segment_seq |-> PyInt(2)],
     [refined_end_phrase |-> PhA],
     [refined_end_segment_seq |-> PyInt(1), refined_end_phrase |-> PhBA],
     [refined_end_phrase |-> PhZ],
     [refined_end_segment_seq |-> PyInt(2), end_adjustment_reason |-> ReasonR]}

Payloads == {s @@ e : s \in StartSides, e \in EndSides}

SamplePayload == [refined_start_segment_seq |-> PyInt(1), refined_end_phrase |-> PhA]

\* the text is one JSON object
StrictJson(d) == Content(<<Candidate(Loaded(d), NoRepair)>>, EmptyDict)

ParseableContents ==
    {StrictJson(d) : d \in Payloads}
    \cup
    {\* a fenced or truncated object: only the repaired text loads
     Content(<<Candidate(LoadError, Loaded(SamplePayload))>>, SamplePayload),
     \* prose around an object: the scanner's substring loads
     Content(<<Candidate(LoadError, LoadError),
               Candidate(Loaded(SamplePayload), NoRepair)>>, SamplePayload),
     \* no brace at all, the field patterns find one field
     Content(<<Candidate(LoadError, NoRepair)>>,
             [refined_end_segment_seq |-> PyInt(2)])}

UnparseableContents ==
    {\* "not valid json"
     Content(<<Candidate(LoadError, NoRepair)>>, EmptyDict),
     \* "[1, 2]": loads, but not to a dict
     Content(<<Candidate(LoadedOther, NoRepair)>>, EmptyDict),
     \* the empty text: no candidate
     Content(<<>>, EmptyDict)}

\* the object "{}" alone, and "{}" in front of a full object
EmptyObjectContents ==
    {StrictJson(EmptyDict),
     Content(<<Candidate(LoadError, NoRepair),
               Candidate(Loaded(EmptyDict), NoRepair),
               Candidate(Loaded(SamplePayload), NoRepair)>>, SamplePayload)}

FrStop == PyStr(<<"s", "t", "o", "p">>)
FrLength == PyStr(<<"l", "e", "n", "g", "t", "h">>)
FrLengthUpper == PyStr(<<"L", "E", "N", "G", "T", "H">>)
FinishReasons == {PyNone, FrStop, FrLength, FrLengthUpper}

\* a litellm response: choices is a list with one choice, an empty list, or
\* a value that cannot be indexed
Response(choices, content, finish_reason) ==
    [choices |-> choices, content |-> content, finish_reason |-> finish_reason]

Responses ==
    {Response("list", c, FrStop) : c \in ParseableContents}
    \cup {Response("list", c, fr) :
             c \in UnparseableContents \cup EmptyObjectContents, fr \in FinishReasons}
    \cup {Response("empty", Content(<<>>, EmptyDict), PyNone),
          Response("bad", Content(<<>>, EmptyDict), PyNone)}

TransportErrors == {"Timeout: request timed out", "AuthenticationError"}
RenderError == "UndefinedError: template"

\* extract_litellm_content / extract_litellm_finish_reason
ExtractContent(resp) ==
    CASE resp.choices = "bad" -> Exc("TypeError: object is not subscriptable")
      [] resp.choices = "empty" -> Val(Content(<<>>, EmptyDict))
      [] OTHER -> Val(resp.content)

ExtractFinishReason(resp) ==
    IF resp.choices = "list" THEN resp.finish_reason ELSE PyNone


(***************************************************************************)
(* WordBoundaryRefiner.refine as a state machine                           *)
(***************************************************************************)
VARIABLES
    ad_start, ad_end, all_segments,       \* the window and the transcript
    post_id, first_seq_num, last_seq_num, \* the keys of the lifecycle record
    pc,                \* where refine is
    context,           \* context segments
    upserts,           \* calls of try_upsert_model_call
    model_call_id,     \* what the upsert returned
    llm_calls,         \* calls of litellm.completion
    response,          \* <<>> or <<the response of the transport>>
    raw_response,      \* <<>> (None) or <<content>>
    parsed,            \* what _parse_json returned
    start_side,        \* <<>> or <<what _refine_start returned>>
    end_side,          \* <<>> or <<what _refine_end returned>>
    caught,            \* <<>> or <<str(exc) of the exception refine caught>>
    updates,           \* the calls of _update_model_call, in order
    writes,            \* the calls that reached the writer (the store)
    record,            \* <<>> or <<the status last written to the record>>
    result,            \* <<>> or <<the returned WordBoundaryRefinement>>
    escaped,           \* <<>> or <<text of the exception refine let through>>
    parked,            \* <<>>, or another invocation of refine that is not running
    call,              \* <<>>, or <<a helper called on its own, with its arguments>>
    returned,          \* <<>>, or <<what that helper returned>>
    wrapper,           \* <<>>, or a call of a function under timeout_decorator
    billing_cache      \* <<>>, or the module billing_cache and the threads calling it

\* what no step of refine assigns: its arguments, the invocations of other
\* jobs, the helpers called on their own and the other modules
inputs == <<ad_start, ad_end, all_segments, post_id, first_seq_num, last_seq_num, parked, call, returned, wrapper, billing_cache>>
vars == <<ad_start, ad_end, all_segments, post_id, first_seq_num, last_seq_num,
          pc, context, upserts, model_call_id, llm_calls, response, raw_response,
          parsed, start_side, end_side, caught, updates, writes, record, result,
          escaped, parked, call, returned, wrapper, billing_cache>>

\* refine has been called and has not run yet
NotStarted ==
    /\ pc = "start"
    /\ context = <<>>
    /\ upserts = 0
    /\ model_call_id = PyNone
    /\ llm_calls = 0
    /\ response = <<>>
    /\ raw_response = <<>>
    /\ parsed = ParsedNone
    /\ start_side = <<>>
    /\ end_side = <<>>
    /\ caught = <<>>
    /\ updates = <<>>
    /\ writes = <<>>
    /\ record = <<>>
    /\ result = <<>>
    /\ escaped = <<>>
    /\ call = <<>>
    /\ returned = <<>>
    /\ wrapper = <<>>
    /\ billing_cache = <<>>

Init ==
    /\ \E w \in AdWindows : ad_start = Sec(w[1]) /\ ad_end = Sec(w[2])
    /\ all_segments \in Transcripts
    /\ \E r \in Requests : post_id = r[1] /\ first_seq_num = r[2] /\ last_seq_num = r[3]
    /\ NotStarted
    /\ parked = <<>>

\* try_update_model_call writing to the store without a call id
TryUpdateModelCallAlways(status, error_message) ==
    \E outcome \in {"ok", "raise"} :
        /\ writes' = Append(writes, [op |-> "update", status |-> status,
                                     outcome |-> outcome])
        /\ record' = IF outcome = "ok" THEN <<status>> ELSE record

\* try_update_model_call: a no-op without a call id; otherwise one write to
\* the store, which succeeds or raises, and a raise is logged and dropped
TryUpdateModelCall(status, error_message) ==
    IF model_call_id.t = "none"
    THEN UNCHANGED <<writes, record>>
    ELSE \E outcome \in {"ok", "raise"} :
            /\ writes' = Append(writes, [op |-> "update", status |-> status,
                                         outcome |-> outcome])
            /\ record' = IF outcome = "ok" THEN <<status>> ELSE record

\* _update_model_call
UpdateModelCall(status, raw, error_message) ==
    /\ updates' = Append(updates, [status |-> status, response |-> raw,
                                   error_message |-> error_message])
    /\ TryUpdateModelCall(status, error_message)

\* the except branch tagging the record as a heuristic success
ExceptHandlerHeuristic(raw, exc_text) ==
    /\ caught' = <<exc_text>>
    /\ UpdateModelCall("success_heuristic", raw, Some(exc_text))
    /\ result' = <<Fallback(ad_start, ad_end)>>
    /\ pc' = "done"

\* the except branch of refine
ExceptHandler(raw, exc_text) ==
    /\ caught' = <<exc_text>>
    /\ UpdateModelCall("failed_permanent", raw, Some(exc_text))
    /\ result' = <<Fallback(ad_start, ad_end)>>
    /\ pc' = "done"

SelectContext ==
    /\ pc = "start"
    /\ context' = GetContext(ad_start, ad_end, all_segments, first_seq_num, last_seq_num)
    /\ pc' = "context_selected"
    /\ UNCHANGED <<inputs, upserts, model_call_id, llm_calls, response, raw_response,
                   parsed, start_side, end_side, caught, updates, writes, record, result, escaped>>

\* template.render raises: nothing in refine catches it
RenderRaises ==
    /\ pc = "context_selected"
    /\ escaped' = <<RenderError>>
    /\ pc' = "raised"
    /\ UNCHANGED <<inputs, context, upserts, model_call_id, llm_calls, response,
                   raw_response, parsed, start_side, end_side, caught, updates, writes, record,
                   result>>

\* try_upsert_model_call without post id or segment range: no store call
UpsertSkipped ==
    /\ pc = "context_selected"
    /\ post_id.t = "none" \/ first_seq_num.t = "none" \/ last_seq_num.t = "none"
    /\ upserts' = upserts + 1
    /\ model_call_id' = PyNone
    /\ pc' = "awaiting_response"
    /\ UNCHANGED <<inputs, context, llm_calls, response, raw_response, parsed,
                   start_side, end_side, caught, updates, writes, record, result, escaped>>

\* try_upsert_model_call letting the store's exception through
UpsertModelCallRaising ==
    /\ pc = "context_selected"
    /\ post_id.t # "none" /\ first_seq_num.t # "none" /\ last_seq_num.t # "none"
    /\ upserts' = upserts + 1
    /\ \E outcome \in {"id", "no_success", "no_id", "raise"} :
          /\ writes' = Append(writes, [op |-> "upsert", status |-> "pending",
                                       outcome |-> outcome])
          /\ model_call_id' = IF outcome = "id" THEN PyInt(42) ELSE PyNone
          /\ record' = IF outcome \in {"id", "no_id"} THEN <<"pending">> ELSE record
          /\ pc' = IF outcome = "raise" THEN "raised" ELSE "awaiting_response"
          /\ escaped' = IF outcome = "raise" THEN <<"writer unavailable">> ELSE escaped
    /\ UNCHANGED <<inputs, context, llm_calls, response, raw_response, parsed,
                   start_side, end_side, caught, updates, result>>

\* try_upsert_model_call with the keys: one store call, which returns an id,
\* reports no success, returns no id, or raises
UpsertModelCall ==
    /\ pc = "context_selected"
    /\ post_id.t # "none" /\ first_seq_num.t # "none" /\ last_seq_num.t # "none"
    /\ upserts' = upserts + 1
    /\ \E outcome \in {"id", "no_success", "no_id", "raise"} :
          /\ writes' = Append(writes, [op |-> "upsert", status |-> "pending",
                                       outcome |-> outcome])
          /\ model_call_id' = IF outcome = "id" THEN PyInt(42) ELSE PyNone
          /\ record' = IF outcome \in {"id", "no_id"} THEN <<"pending">> ELSE record
    /\ pc' = "awaiting_response"
    /\ UNCHANGED <<inputs, context, llm_calls, response, raw_response, parsed,
                   start_side, end_side, caught, updates, result, escaped>>

CompletionReturns ==
    /\ pc = "awaiting_response"
    /\ llm_calls' = llm_calls + 1
    /\ \E resp \in Responses : response' = <<resp>>
    /\ pc' = "response_received"
    /\ UNCHANGED <<inputs, context, upserts, model_call_id, raw_response, parsed,
                   start_side, end_side, caught, updates, writes, record, result, escaped>>

\* a failed completion that is tried again instead of handled
CompletionRaisesRetried ==
    /\ pc = "awaiting_response"
    /\ llm_calls' = llm_calls + 1
    /\ UNCHANGED <<inputs, pc, context, upserts, model_call_id, response, raw_response,
                   parsed, start_side, end_side, caught, updates, writes, record, result,
                   escaped>>

CompletionRaises ==
    /\ pc = "awaiting_response"
    /\ llm_calls' = llm_calls + 1
    /\ \E e \in TransportErrors : ExceptHandler(raw_response, e)
    /\ UNCHANGED <<inputs, context, upserts, model_call_id, response, raw_response,
                   parsed, start_side, end_side, escaped>>

\* content extraction and the received_response update
ReceiveResponse ==
    /\ pc = "response_received"
    /\ ExtractContent(response[1]).k = "val"
    /\ raw_response' = <<ExtractContent(response[1]).v>>
    /\ UpdateModelCall("received_response", raw_response', NoneStr)
    /\ pc' = "received"
    /\ UNCHANGED <<inputs, context, upserts, model_call_id, llm_calls, response, parsed,
                   start_side, end_side, caught, result, escaped>>

ExtractRaises ==
    /\ pc = "response_received"
    /\ ExtractContent(response[1]).k = "exc"
    /\ ExceptHandler(raw_response, ExtractContent(response[1]).msg)
    /\ UNCHANGED <<inputs, context, upserts, model_call_id, llm_calls, response,
                   raw_response, parsed, start_side, end_side, escaped>>

ParseSucceeds ==
    /\ pc = "received"
    /\ ~NotParsed(ParseJson(raw_response[1]))
    /\ parsed' = ParseJson(raw_response[1])
    /\ pc' = "parsed"
    /\ UNCHANGED <<inputs, context, upserts, model_call_id, llm_calls, response,
                   raw_response, start_side, end_side, caught, updates, writes, record, result,
                   escaped>>

ParseFails ==
    /\ pc = "received"
    /\ NotParsed(ParseJson(raw_response[1]))
    /\ parsed' = ParseJson(raw_response[1])
    /\ UpdateModelCall("success_heuristic", raw_response,
                       Some(IF ParseFailureReason(ExtractFinishReason(response[1])) = "length"
                            THEN "parse_failed:length" ELSE "parse_failed:format"))
    /\ result' = <<Fallback(ad_start, ad_end)>>
    /\ pc' = "done"
    /\ UNCHANGED <<inputs, context, upserts, model_call_id, llm_calls, response,
                   raw_response, start_side, end_side, caught, escaped>>

StartOf(payload) ==
    RefineStart(ad_start, all_segments, context, payload.start_segment_seq,
                payload.start_phrase, payload.start_word, payload.start_occurrence,
                payload.start_word_index, payload.start_reason)

EndOf(payload) ==
    RefineEnd(ad_end, all_segments, context, payload.end_segment_seq,
              payload.end_phrase, payload.end_reason)

\* the exception the two estimations raise, if any (_refine_start runs first)
EstimationError(payload) ==
    IF StartOf(payload).k = "exc" THEN <<StartOf(payload).msg>>
    ELSE IF EndOf(payload).k = "exc" THEN <<EndOf(payload).msg>>
         ELSE <<>>

Estimate ==
    /\ pc = "parsed"
    /\ LET payload == ExtractPayload(parsed.d)
       IN /\ EstimationError(payload) = <<>>
          /\ start_side' = <<[StartOf(payload) EXCEPT
                                !.reason = DefaultReason(@, StartOf(payload).changed)]>>
          /\ end_side' = <<[EndOf(payload) EXCEPT
                              !.reason = DefaultReason(@, EndOf(payload).changed)]>>
    /\ pc' = "estimated"
    /\ UNCHANGED <<inputs, context, upserts, model_call_id, llm_calls, response,
                   raw_response, parsed, caught, updates, writes, record, result, escaped>>

EstimateRaises ==
    /\ pc = "parsed"
    /\ LET payload == ExtractPayload(parsed.d)
       IN /\ EstimationError(payload) # <<>>
          /\ ExceptHandler(raw_response, EstimationError(payload)[1])
    /\ UNCHANGED <<inputs, context, upserts, model_call_id, llm_calls, response,
                   raw_response, parsed, start_side, end_side, escaped>>

\* the guardrail with < in place of <=
InvalidWindowStrict(refined_start, refined_end) == refined_end < refined_start

\* the guardrail's test
InvalidWindow(refined_start, refined_end) == refined_end <= refined_start

PartialErrors == start_side[1].err \o end_side[1].err

JoinErrors(errs) ==
    CASE Len(errs) = 0 -> NoneStr
      [] Len(errs) = 1 -> Some(errs[1])
      [] OTHER -> Some("start_phrase_not_found,end_phrase_not_found")

\* the guardrail tagging the record but returning the estimates
GuardRejectsKeepsEstimates ==
    /\ pc = "estimated"
    /\ InvalidWindow(start_side[1].time, end_side[1].time)
    /\ UpdateModelCall("success_heuristic", raw_response, Some("invalid_refined_window"))
    /\ result' = <<Refinement(start_side[1].time, end_side[1].time,
                              start_side[1].reason, end_side[1].reason)>>
    /\ pc' = "done"
    /\ UNCHANGED <<inputs, context, upserts, model_call_id, llm_calls, response,
                   raw_response, parsed, start_side, end_side, caught, escaped>>

GuardRejects ==
    /\ pc = "estimated"
    /\ InvalidWindow(start_side[1].time, end_side[1].time)
    /\ UpdateModelCall("success_heuristic", raw_response, Some("invalid_refined_window"))
    /\ result' = <<Fallback(ad_start, ad_end)>>
    /\ pc' = "done"
    /\ UNCHANGED <<inputs, context, upserts, model_call_id, llm_calls, response,
                   raw_response, parsed, start_side, end_side, caught, escaped>>

\* the update with _result_status (lines 196-201)
GuardAccepts ==
    /\ pc = "estimated"
    /\ ~InvalidWindow(start_side[1].time, end_side[1].time)
    /\ UpdateModelCall(ResultStatus(start_side[1].changed, end_side[1].changed, PartialErrors),
                       raw_response, JoinErrors(PartialErrors))
    /\ pc' = "guarded"
    /\ UNCHANGED <<inputs, context, upserts, model_call_id, llm_calls, response,
                   raw_response, parsed, start_side, end_side, caught, result, escaped>>

\* the second update, always "success" (lines 210-216), and the return
ReturnRefined ==
    /\ pc = "guarded"
    /\ UpdateModelCall("success", raw_response, NoneStr)
    /\ result' = <<Refinement(start_side[1].time, end_side[1].time,
                              start_side[1].reason, end_side[1].reason)>>
    /\ pc' = "done"
    /\ UNCHANGED <<inputs, context, upserts, model_call_id, llm_calls, response,
                   raw_response, parsed, start_side, end_side, caught, escaped>>

Next ==
    \/ SelectContext
    \/ RenderRaises
    \/ UpsertSkipped
    \/ UpsertModelCall
    \/ CompletionReturns
    \/ CompletionRaises
    \/ ReceiveResponse
    \/ ExtractRaises
    \/ ParseSucceeds
    \/ ParseFails
    \/ Estimate
    \/ EstimateRaises
    \/ GuardRejects
    \/ GuardAccepts
    \/ ReturnRefined

Spec == Init /\ [][Next]_vars

(***************************************************************************)
(* Properties                                                              *)
(***************************************************************************)
Last(seq) == seq[Len(seq)]
Returned == pc = "done" /\ result # <<>>
IsFallback(r) ==
    /\ r.refined_start = ad_start
    /\ r.refined_end = ad_end
    /\ r.start_adjustment_reason = ReasonHeuristicFallback
    /\ r.end_adjustment_reason = ReasonUnchanged
TerminalStatuses == {"success", "success_heuristic", "failed_permanent"}
CountStatus(S) == Cardinality({i \in 1..Len(updates) : updates[i].status \in S})

\* no candidate loads to a JSON object, strictly or repaired, and the field
\* patterns find nothing
NoPayload(content) ==
    /\ \A i \in 1..Len(content.cands) :
          content.cands[i].strict.k # "dict" /\ content.cands[i].repaired.k # "dict"
    /\ DOMAIN content.partial = {}

\* refine handled a response without an exception
HandledResponse == pc = "done" /\ caught = <<>> /\ raw_response # <<>>

\* C1: refine never lets an exception through, whatever the prompt
\* rendering, the transport, the parsing, the estimation or the lifecycle
\* writes do.
C1_NoExceptionEscapes == escaped = <<>> /\ pc # "raised"

\* C2: for an input window with ad_end > ad_start, the returned value has
\* refined_end > refined_start, on the refined path and on every fallback.
C2_ReturnedWindowValid ==
    (Returned /\ ad_end > ad_start) => result[1].refined_end > result[1].refined_start

C2_Witness ==
    /\ Returned
    /\ ~IsFallback(result[1])
    /\ result[1].refined_start # ad_start
    /\ result[1].refined_end # ad_end

\* C3: an exception raised by the transport call or while the response is
\* handled is caught: refine is done, the last lifecycle update is
\* failed_permanent with the exception text as error_message, the original
\* window is returned with reasons heuristic_fallback / unchanged, and after
\* a transport failure no received_response update was issued.  Nothing
\* escapes once the transport has been called.
C3_ExceptionFallsBack ==
    /\ llm_calls > 0 => escaped = <<>>
    /\ (pc = "done" /\ response = <<>>) => (caught # <<>> /\ caught[1] \in TransportErrors)
    /\ (pc = "done" /\ response # <<>> /\ response[1].choices = "bad") => caught # <<>>
    /\ caught # <<>> =>
          /\ Returned
          /\ IsFallback(result[1])
          /\ updates # <<>>
          /\ Last(updates).status = "failed_permanent"
          /\ Last(updates).error_message = <<caught[1]>>
          /\ CountStatus(TerminalStatuses) = 1
          /\ response = <<>> => CountStatus({"received_response"}) = 0

C3_Witness ==
    /\ pc = "done"
    /\ caught # <<>>
    /\ parsed.k = "val"
    /\ updates[1].status = "received_response"

C4_ParseFailureUpdates(length_tag) ==
    /\ updates = <<[status |-> "received_response", response |-> raw_response,
                    error_message |-> NoneStr],
                   [status |-> "success_heuristic", response |-> raw_response,
                    error_message |-> Some(IF length_tag THEN "parse_failed:length"
                                           ELSE "parse_failed:format")]>>
    /\ result # <<>>
    /\ IsFallback(result[1])

\* C4 as claimed: after a response from which no payload can be parsed,
\* exactly two updates, received_response / None and then success_heuristic
\* with parse_failed:length if finish_reason is "length" and
\* parse_failed:format for every other finish_reason; the original window is
\* returned.
C4_ParseFailureTagged ==
    (HandledResponse /\ NoPayload(raw_response[1])) =>
        C4_ParseFailureUpdates(ExtractFinishReason(response[1]) = FrLength)

\* C4 as amended: the same, with parse_failed:length exactly when
\* finish_reason equals "length" without regard to case.
C4_ParseFailureTaggedAnyCase ==
    (HandledResponse /\ NoPayload(raw_response[1])) =>
        C4_ParseFailureUpdates(
            LET fr == ExtractFinishReason(response[1])
            IN fr.t = "str" /\ Lower(fr.s) = <<"l", "e", "n", "g", "t", "h">>)

C4_Witness ==
    /\ HandledResponse
    /\ NoPayload(raw_response[1])
    /\ ExtractFinishReason(response[1]) = FrLengthUpper
    /\ Last(updates).error_message = <<"parse_failed:length">>

\* C5: refine takes the parse-failure path if and only if no JSON payload
\* is recoverable: a candidate that loads to a JSON object, or a field found
\* by partial extraction, means no parse failure is tagged.
C5_ParseFailureIffNoPayload ==
    HandledResponse =>
        ((\E i \in 1..Len(updates) :
             updates[i].error_message \in {<<"parse_failed:length">>, <<"parse_failed:format">>})
         <=> NoPayload(raw_response[1]))

\* both sides were estimated
Estimated == start_side # <<>> /\ end_side # <<>>

\* C6: with both sides estimated and refined_end <= refined_start, refine
\* returns the original window with reasons heuristic_fallback / unchanged
\* and its last lifecycle update carries invalid_refined_window.
C6_InvalidWindowFallsBack ==
    (pc = "done" /\ Estimated /\ end_side[1].time <= start_side[1].time) =>
        /\ result # <<>>
        /\ IsFallback(result[1])
        /\ Last(updates).error_message = <<"invalid_refined_window">>

C6_Witness ==
    /\ pc = "done"
    /\ Estimated
    /\ end_side[1].time <= start_side[1].time
    /\ start_side[1].changed
    /\ end_side[1].changed

PhraseTokens(phrase) == LowerAll(SplitWords(StrOrEmpty(phrase)))

\* the segments a phrase search looks at: the preferred one and the context
SearchedSegments(preferred_seq) ==
    {context[i] : i \in 1..Len(context)}
    \cup (IF FindSegment(all_segments, preferred_seq) = 0 THEN {}
          ELSE {all_segments[FindSegment(all_segments, preferred_seq)]})

\* some searched segment of positive duration has the token among its words
TokenOccurs(tok, preferred_seq) ==
    \E seg \in SearchedSegments(preferred_seq) :
        /\ seg.start_time # NoTime
        /\ seg.end_time > seg.start_time
        /\ \E i \in 1..Len(SplitWords(seg.text)) : Lower(SplitWords(seg.text)[i]) = tok

StartPhraseNowhere(payload) ==
    /\ HasText(payload.start_phrase)
    /\ LET toks == PhraseTokens(payload.start_phrase)
       IN toks = <<>> \/ ~TokenOccurs(toks[1], payload.start_segment_seq)

EndPhraseNowhere(payload) ==
    /\ HasText(payload.end_phrase)
    /\ LET toks == PhraseTokens(payload.end_phrase)
       IN toks = <<>> \/ ~TokenOccurs(toks[Len(toks)], payload.end_segment_seq)

StartKeys ==
    {"refined_start_segment_seq", "refined_start_phrase", "refined_start_word",
     "refined_start_word_index", "occurrence", "occurance", "start_adjustment_reason"}
EndKeys == {"refined_end_segment_seq", "refined_end_phrase", "end_adjustment_reason"}
Restrict(d, keys) == [key \in (DOMAIN d) \cap keys |-> d[key]]

\* C7: a side whose phrase is found in no searched segment comes back
\* unchanged with its *_phrase_not_found tag, the other side is what it is
\* for the payload without the failing side's fields, and a valid window is
\* returned with both sides as estimated.
C7_PhraseMissLeavesOtherSide ==
    Estimated =>
        LET payload == ExtractPayload(parsed.d)
        IN /\ StartPhraseNowhere(payload) =>
                /\ start_side[1].time = ad_start
                /\ ~start_side[1].changed
                /\ start_side[1].err = <<"start_phrase_not_found">>
                /\ end_side[1].time = EndOf(ExtractPayload(Restrict(parsed.d, EndKeys))).time
                /\ end_side[1].err = EndOf(ExtractPayload(Restrict(parsed.d, EndKeys))).err
           /\ EndPhraseNowhere(payload) =>
                /\ end_side[1].time = ad_end
                /\ ~end_side[1].changed
                /\ end_side[1].err = <<"end_phrase_not_found">>
                /\ start_side[1].time = StartOf(ExtractPayload(Restrict(parsed.d, StartKeys))).time
                /\ start_side[1].err = StartOf(ExtractPayload(Restrict(parsed.d, StartKeys))).err
           /\ (pc = "done" /\ end_side[1].time > start_side[1].time) =>
                /\ result # <<>>
                /\ result[1].refined_start = start_side[1].time
                /\ result[1].refined_end = end_side[1].time

C7_Witness ==
    /\ pc = "done"
    /\ Estimated
    /\ StartPhraseNowhere(ExtractPayload(parsed.d))
    /\ end_side[1].changed
    /\ result[1].refined_start = ad_start
    /\ result[1].refined_end = end_side[1].time
    /\ result[1].refined_end # ad_end

\* C8: the status of the last update is success only if both estimations
\* ran with no partial error, and is success_heuristic when a partial error
\* was reported and neither side changed.
C8_TerminalStatus ==
    (Returned /\ updates # <<>>) =>
        /\ Last(updates).status = "success" =>
              (Estimated /\ start_side[1].err = <<>> /\ end_side[1].err = <<>>)
        /\ (Estimated /\ caught = <<>>
            /\ start_side[1].err \o end_side[1].err # <<>>
            /\ ~start_side[1].changed /\ ~end_side[1].changed) =>
              Last(updates).status = "success_heuristic"

\* C9: per call one upsert, at most one received_response update, exactly
\* one update with a terminal status, and nothing after the terminal one.
C9_ThreeCheckpoints ==
    pc = "done" =>
        /\ upserts = 1
        /\ CountStatus({"received_response"}) <= 1
        /\ CountStatus(TerminalStatuses) = 1
        /\ Last(updates).status \in TerminalStatuses
        /\ \A i \in 1..(Len(updates) - 1) : updates[i].status = "received_response"

\* C10: the model transport is called once per returning refine call, on
\* every path, and never a second time.
C10_OneInvocation ==
    /\ llm_calls <= 1
    /\ Returned => llm_calls = 1

C10_Witness ==
    /\ Returned
    /\ caught # <<>>
    /\ response = <<>>
    /\ llm_calls = 1

(***************************************************************************)
(* The lifecycle store                                                     *)
(***************************************************************************)
\* the refinement refine returns for a model outcome (<<>> when the
\* transport raised, else <<response>>), computed from the window, the
\* transcript and the context alone: no variable of the store is read
RefinementFor(outcome) ==
    IF outcome = <<>> THEN Fallback(ad_start, ad_end)
    ELSE LET c == ExtractContent(outcome[1])
         IN IF c.k = "exc" \/ NotParsed(ParseJson(c.v)) THEN Fallback(ad_start, ad_end)
            ELSE LET payload == ExtractPayload(ParseJson(c.v).d)
                     s == StartOf(payload)
                     e == EndOf(payload)
                 IN IF EstimationError(payload) # <<>> THEN Fallback(ad_start, ad_end)
                    ELSE IF InvalidWindow(s.time, e.time) THEN Fallback(ad_start, ad_end)
                    ELSE Refinement(s.time, e.time, DefaultReason(s.reason, s.changed),
                                    DefaultReason(e.reason, e.changed))

FailedWrites == {i \in 1..Len(writes) : writes[i].outcome \in {"raise", "no_success"}}

\* C11: the returned refinement is a function of the window, the segments
\* and the model outcome only, so runs that differ in what the store does
\* (no record, a write succeeding or raising) return the same value; and a
\* store write that raises never makes refine raise.
C11_LifecycleObservational ==
    /\ Returned => result[1] = RefinementFor(response)
    /\ writes # <<>> => escaped = <<>> /\ pc # "raised"

C11_Witness ==
    /\ Returned
    /\ \E i \in FailedWrites : writes[i].op = "update"
    /\ ~IsFallback(result[1])
    /\ result[1].refined_start # ad_start

\* C12: without post id or segment range the store is never called; and
\* without a call id (keys absent, upsert failed or reported no success) no
\* update reaches the store.
C12_NoRecordNoWrites ==
    /\ (post_id.t = "none" \/ first_seq_num.t = "none" \/ last_seq_num.t = "none")
          => writes = <<>>
    /\ model_call_id.t = "none" => \A i \in 1..Len(writes) : writes[i].op # "update"

C12_Witness ==
    /\ Returned
    /\ post_id.t # "none" /\ first_seq_num.t = "none"
    /\ Len(updates) = 3
    /\ writes = <<>>

(***************************************************************************)
(* Bounds of the estimates                                                 *)
(***************************************************************************)
\* the payload refine hands to the two estimations
CurrentPayload == ExtractPayload(parsed.d)
AtEstimation == pc = "parsed"

\* C13: whatever the payload and the segments, a time _refine_start returns
\* is at least ad_start - 30 and a time _refine_end returns is at most
\* ad_end + 15.
C13_EstimatesClamped ==
    AtEstimation =>
        /\ StartOf(CurrentPayload).k = "val" =>
              StartOf(CurrentPayload).time >= ad_start - Sec(MAX_START_EXTENSION_SECONDS)
        /\ EndOf(CurrentPayload).k = "val" =>
              EndOf(CurrentPayload).time <= ad_end + Sec(MAX_END_EXTENSION_SECONDS)

\* both bounds bite: the start segment begins more than 30 s before the
\* window and the end segment ends more than 15 s after it
C13_Witness ==
    /\ pc = "estimated"
    /\ LET s == EstimateSegmentBoundaryTime(all_segments, CurrentPayload.start_segment_seq, "start")
           e == EstimateSegmentBoundaryTime(all_segments, CurrentPayload.end_segment_seq, "end")
       IN /\ s.k = "val" /\ s.v < ad_start - Sec(MAX_START_EXTENSION_SECONDS)
          /\ e.k = "val" /\ e.v > ad_end + Sec(MAX_END_EXTENSION_SECONDS)
    /\ start_side[1].time = ad_start - Sec(MAX_START_EXTENSION_SECONDS)
    /\ end_side[1].time = ad_end + Sec(MAX_END_EXTENSION_SECONDS)

\* the phrase matches in this segment: it has a start time, a positive
\* duration, and a prefix (start) or suffix (end) of the phrase's tokens
\* occurs among its words
PhraseMatchesIn(seg, phrase, direction) ==
    /\ seg.start_time # NoTime
    /\ seg.end_time > seg.start_time
    /\ FindPhraseMatch(LowerAll(SplitWords(seg.text)), PhraseTokens(phrase), direction,
                       MAX_PHRASE_WORDS).k = "val"

\* an estimate of _estimate_phrase_time lies within the bounds of the first
\* candidate segment the phrase matches in
PhraseEstimateContained(preferred_segment_seq, phrase, direction) ==
    LET est == EstimatePhraseTime(all_segments, context, preferred_segment_seq, phrase,
                                  direction)
        cands == PhraseCandidates(all_segments, context, preferred_segment_seq, direction)
    IN est.k = "val" =>
          \E i \in 1..Len(cands) :
              /\ PhraseMatchesIn(cands[i], phrase, direction)
              /\ \A j \in 1..(i - 1) : ~PhraseMatchesIn(cands[j], phrase, direction)
              /\ cands[i].start_time <= est.v
              /\ est.v <= cands[i].end_time

\* C14: a phrase estimate lies within [start_time, end_time] of the segment
\* the phrase was matched in, for direction start and for direction end.
C14_PhraseEstimateInSegment ==
    AtEstimation =>
        \A direction \in {"start", "end"} :
            /\ PhraseEstimateContained(CurrentPayload.start_segment_seq,
                                       CurrentPayload.start_phrase, direction)
            /\ PhraseEstimateContained(CurrentPayload.end_segment_seq,
                                       CurrentPayload.end_phrase, direction)

\* a start phrase matched inside a three-word segment and an end phrase
\* matched at the last word of its segment
C14_Witness ==
    /\ AtEstimation
    /\ LET s == EstimatePhraseTime(all_segments, context, CurrentPayload.start_segment_seq,
                                   CurrentPayload.start_phrase, "start")
           e == EstimatePhraseTime(all_segments, context, CurrentPayload.end_segment_seq,
                                   CurrentPayload.end_phrase, "end")
       IN /\ s.k = "val" /\ e.k = "val"
          /\ \E i \in 1..Len(all_segments) :
                /\ all_segments[i].start_time # NoTime
                /\ all_segments[i].start_time < s.v /\ s.v < all_segments[i].end_time
          /\ \E i \in 1..Len(all_segments) :
                /\ PhraseMatchesIn(all_segments[i], CurrentPayload.end_phrase, "end")
                /\ e.v = all_segments[i].end_time

(***************************************************************************)
(* Context selection on longer transcripts                                 *)
(***************************************************************************)
MaxContextSegs == 9

\* ten-second segments laid end to end, one per sequence number below
\* MaxContextSegs, and one segment of sequence number 4 that lies far after
\* the others
ContextPool ==
    {Segment(s, Sec(10 * s), Sec(10 * s + 10), TxtA) : s \in 0..(MaxContextSegs - 1)}
    \cup {Segment(4, Sec(200), Sec(210), TxtA)}

RECURSIVE SeqOfSet(_)
SeqOfSet(S) ==
    IF S = {} THEN <<>>
    ELSE LET m == CHOOSE x \in S : \A y \in S : x.sequence_num <= y.sequence_num
         IN <<m>> \o SeqOfSet(S \ {m})

\* transcripts: sequence numbers unique and increasing
ContextTranscripts ==
    {SeqOfSet(S) : S \in {T \in SUBSET ContextPool :
                             \A x, y \in T : x.sequence_num = y.sequence_num => x = y}}

ContextWindows == AdWindows \cup {<<95, 99>>}

\* (first_seq_num, last_seq_num)
ContextRequests ==
    {<<PyNone, PyNone>>, <<PyNone, PyInt(3)>>, <<PyInt(0), PyInt(0)>>,
     <<PyInt(3), PyInt(4)>>, <<PyInt(7), PyInt(7)>>, <<PyInt(12), PyInt(12)>>}

ContextInit ==
    /\ \E w \in ContextWindows : ad_start = Sec(w[1]) /\ ad_end = Sec(w[2])
    /\ all_segments \in ContextTranscripts
    /\ post_id = PyNone
    /\ \E r \in ContextRequests : first_seq_num = r[1] /\ last_seq_num = r[2]
    /\ NotStarted
    /\ parked = <<>>

ContextNext == SelectContext

ContextSpec == ContextInit /\ [][ContextNext]_vars

ContextSelected == pc = "context_selected"
SeqNums(segs) == [i \in 1..Len(segs) |-> segs[i].sequence_num]
SeqNumSet == {all_segments[i].sequence_num : i \in 1..Len(all_segments)}
SeqKeysGiven == first_seq_num.t = "int" /\ last_seq_num.t = "int"

\* the positions of all_segments whose sequence number is in the padded,
\* clamped window
InSeqWindow ==
    LET min_seq == CHOOSE m \in SeqNumSet : \A n \in SeqNumSet : m <= n
        max_seq == CHOOSE m \in SeqNumSet : \A n \in SeqNumSet : m >= n
    IN {i \in 1..Len(all_segments) :
           /\ all_segments[i].sequence_num >= Max2(min_seq, first_seq_num.n - 2)
           /\ all_segments[i].sequence_num <= Min2(max_seq, last_seq_num.n + 2)}

\* segs is all_segments restricted to the positions P, in order
IsRestriction(segs, P) ==
    /\ Len(segs) = Cardinality(P)
    /\ \A i \in P : segs[Cardinality({j \in P : j <= i})] = all_segments[i]

\* segments 0..99, one second each
HundredSegments == [i \in 1..100 |-> Segment(i - 1, Sec(i - 1), Sec(i), TxtA)]
WindowOfHundred == SeqNums(ContextBySeqWindow(HundredSegments, PyInt(20), PyInt(80)))

\* C15: with first and last given and segments present, the sequence window
\* is exactly the segments with sequence number in
\* [max(min_seq, first - 2), min(max_seq, last + 2)]; for 0..99, first 20 and
\* last 80 it is 18..82.
C15_SeqWindowExact ==
    /\ (ContextSelected /\ SeqKeysGiven /\ all_segments # <<>>) =>
          IsRestriction(ContextBySeqWindow(all_segments, first_seq_num, last_seq_num),
                        InSeqWindow)
    /\ WindowOfHundred = [i \in 1..65 |-> 17 + i]

C15_Witness ==
    /\ ContextSelected
    /\ SeqKeysGiven
    /\ context = ContextBySeqWindow(all_segments, first_seq_num, last_seq_num)
    /\ context # <<>>
    /\ context[1] # all_segments[1]
    /\ Last(context) # Last(all_segments)
    /\ first_seq_num.n - 2 \notin SeqNumSet

\* the positions of all_segments that overlap the ad window
Overlapping ==
    {i \in 1..Len(all_segments) :
        all_segments[i].start_time <= ad_end /\ all_segments[i].end_time >= ad_start}

\* C16: the context is the sequence window when that is non-empty; else the
\* empty list when nothing overlaps the ad window, else all_segments from 2
\* positions before the first overlapping segment through 2 positions after
\* the last, within the list.
C16_TimeOverlapFallback ==
    ContextSelected =>
        LET by_seq == ContextBySeqWindow(all_segments, first_seq_num, last_seq_num)
        IN /\ by_seq # <<>> => context = by_seq
           /\ (by_seq = <<>> /\ Overlapping = {}) => context = <<>>
           /\ (by_seq = <<>> /\ Overlapping # {}) =>
                 context = SubSeq(all_segments,
                                  Max2(1, SetMin(Overlapping) - 2),
                                  Min2(Len(all_segments), SetMax(Overlapping) + 2))

\* keys given but the sequence window is empty; the slice starts after the
\* first segment, stops before the last, and spans a segment that does not
\* overlap
C16_Witness ==
    /\ ContextSelected
    /\ SeqKeysGiven
    /\ ContextBySeqWindow(all_segments, first_seq_num, last_seq_num) = <<>>
    /\ Overlapping # {}
    /\ context[1] # all_segments[1]
    /\ Last(context) # Last(all_segments)
    /\ \E i \in SetMin(Overlapping)..SetMax(Overlapping) : i \notin Overlapping


(***************************************************************************)
(* Truncated responses: _parse_json on the text of a cut-off object        *)
(***************************************************************************)
RECURSIVE JsonEscape(_)
\* a string's characters as json.dumps writes them between the quotes
JsonEscape(s) ==
    IF s = <<>> THEN <<>>
    ELSE (CASE Head(s) = Quote -> <<Backslash, Quote>>
            [] Head(s) = Backslash -> <<Backslash, Backslash>>
            [] Head(s) = "\n" -> <<Backslash, "n">>
            [] OTHER -> <<Head(s)>>) \o JsonEscape(Tail(s))

\* a value as JSON text: an int, null or a string
RenderValue(v) ==
    CASE v.t = "int" -> IF v.n < 0 THEN <<"-">> \o NatToStr(0 - v.n) ELSE NatToStr(v.n)
      [] v.t = "none" -> <<"n", "u", "l", "l">>
      [] OTHER -> <<Quote>> \o JsonEscape(v.s) \o <<Quote>>

\* "key": value
MemberText(field) ==
    <<Quote>> \o Chars(field[1]) \o <<Quote, ":", " ">> \o RenderValue(field[2])

\* the layouts of an object: on one line, indented, indented within a fence
Layouts == {"compact", "indented", "fenced"}
LayoutHead(layout) ==
    CASE layout = "compact" -> <<"{">>
      [] layout = "indented" -> <<"{", "\n", " ", " ">>
      [] OTHER -> Fence \o <<"j", "s", "o", "n", "\n", "{", "\n", " ", " ">>
LayoutSep(layout) ==
    IF layout = "compact" THEN <<",", " ">> ELSE <<",", "\n", " ", " ">>
LayoutTail(layout) ==
    CASE layout = "compact" -> <<"}">>
      [] layout = "indented" -> <<"\n", "}">>
      [] OTHER -> <<"\n", "}", "\n">> \o Fence

RECURSIVE RenderedUpTo(_, _, _)
\* the text of an object from its beginning through its k-th member
RenderedUpTo(fields, k, layout) ==
    IF k = 0 THEN LayoutHead(layout)
    ELSE RenderedUpTo(fields, k - 1, layout)
         \o (IF k > 1 THEN LayoutSep(layout) ELSE <<>>) \o MemberText(fields[k])

FullText(fields, layout) ==
    RenderedUpTo(fields, Len(fields), layout) \o LayoutTail(layout)

\* the positions of the last and of the first character of the k-th member
MemberEnd(fields, k, layout) == Len(RenderedUpTo(fields, k, layout))
MemberStart(fields, k, layout) ==
    MemberEnd(fields, k, layout) - Len(MemberText(fields[k])) + 1

FieldsPlain ==
    <<<<"refined_start_segment_seq", PyInt(288)>>,
      <<"refined_start_phrase", PyStr(<<"i", "f", " ", "y", "o", "u">>)>>,
      <<"refined_end_segment_seq", PyInt(345)>>,
      <<"refined_end_phrase", PyStr(<<"s", "e", "e", " ", "y", "a">>)>>>>
FieldsQuoted ==
    <<<<"refined_start_segment_seq", PyNone>>,
      <<"refined_start_phrase", PyStr(<<"s", "a", "y", " ", Quote, "h", "i", Quote>>)>>,
      <<"refined_end_segment_seq", PyInt(0 - 3)>>,
      <<"end_adjustment_reason", PyStr(<<"q">>)>>>>
FieldLists == {FieldsPlain, FieldsQuoted}

\* an object cut after `cut` characters, at or after the end of its first
\* member and before its own end: the text, the members wholly before the
\* cut and the keys of the members the cut falls into
Truncation(fields, layout, cut) ==
    [text |-> SubSeq(FullText(fields, layout), 1, cut),
     complete |-> {fields[k] : k \in {j \in 1..Len(fields) :
                                         MemberEnd(fields, j, layout) <= cut}},
     cut_off |-> {fields[k][1] : k \in {j \in 1..Len(fields) :
                                           /\ MemberStart(fields, j, layout) <= cut
                                           /\ cut < MemberEnd(fields, j, layout)}}]

Truncations ==
    {Truncation(fields, layout, cut) :
        <<fields, layout, cut>> \in
            UNION {UNION {{<<f, l, c>> :
                              c \in MemberEnd(f, 1, l)..(Len(FullText(f, l)) - 1)}
                          : l \in Layouts}
                   : f \in FieldLists}}

\* _parse_json has been handed the text of a truncated object
ParseInit ==
    /\ ad_start = Sec(10) /\ ad_end = Sec(12)
    /\ all_segments = <<>>
    /\ post_id = PyNone /\ first_seq_num = PyNone /\ last_seq_num = PyNone
    /\ pc = "text_received"
    /\ \E truncation \in Truncations : raw_response = <<truncation.text>>
    /\ context = <<>>
    /\ upserts = 0
    /\ model_call_id = PyNone
    /\ llm_calls = 0
    /\ response = <<>>
    /\ parsed = ParsedNone
    /\ start_side = <<>>
    /\ end_side = <<>>
    /\ caught = <<>>
    /\ updates = <<>>
    /\ writes = <<>>
    /\ record = <<>>
    /\ result = <<>>
    /\ escaped = <<>>
    /\ parked = <<>>
    /\ call = <<>>
    /\ returned = <<>>
    /\ wrapper = <<>>
    /\ billing_cache = <<>>

\* parsed = self._parse_json(content), content being the text itself
ParseText ==
    /\ pc = "text_received"
    /\ parsed' = ParseJson(ContentOf(raw_response[1]))
    /\ pc' = "text_parsed"
    /\ UNCHANGED <<inputs, context, upserts, model_call_id, llm_calls, response,
                   raw_response, start_side, end_side, caught, updates, writes, record,
                   result, escaped>>

ParseNext == ParseText

ParseSpec == ParseInit /\ [][ParseNext]_vars

\* the payload holds the complete members and none of the cut-off keys
Recovers(payload, truncation) ==
    /\ payload.k = "val"
    /\ \A field \in truncation.complete :
          field[1] \in DOMAIN payload.d /\ payload.d[field[1]] = field[2]
    /\ \A key \in truncation.cut_off : key \notin DOMAIN payload.d

\* C17: _parse_json recovers an object truncated after one or more complete
\* fields: the payload contains every complete key/value pair that precedes
\* the cut and no key whose name or value was cut off.
C17_TruncatedObjectRecovered ==
    pc = "text_parsed" =>
        \A truncation \in Truncations :
            truncation.text = raw_response[1] => Recovers(parsed, truncation)


(***************************************************************************)
(* The reasons on the returned value                                       *)
(***************************************************************************)
\* refine returned the estimates of the two sides, not the fallback
ReturnedEstimates ==
    /\ Returned
    /\ caught = <<>>
    /\ start_side # <<>> /\ end_side # <<>>
    /\ ~InvalidWindow(start_side[1].time, end_side[1].time)

\* the reason _default_reason gives a side the model gave no reason for
ReasonOfChange(changed) == IF changed THEN ReasonRefined ELSE ReasonUnchanged

\* C18: on every returned value both reasons are non-empty, and a side the
\* model gave no reason for has reason "refined" when it was changed and
\* "unchanged" when it was left untouched (changed = false).
C18_ReasonsDefaulted ==
    /\ Returned =>
          /\ result[1].start_adjustment_reason # <<>>
          /\ result[1].end_adjustment_reason # <<>>
    /\ ReturnedEstimates =>
          /\ CurrentPayload.start_reason = <<>> =>
                result[1].start_adjustment_reason = ReasonOfChange(start_side[1].changed)
          /\ CurrentPayload.end_reason = <<>> =>
                result[1].end_adjustment_reason = ReasonOfChange(end_side[1].changed)


(***************************************************************************)
(* Several jobs calling refine at once                                     *)
(*                                                                         *)
(* Every name refine assigns is a local of the call (lines 78-203); the    *)
(* refiner's attributes config, logger and template are assigned in        *)
(* __init__ only.  Each job has its own record in the store, addressed by  *)
(* its own model_call_id.  The running job's frame is in the variables;    *)
(* the other job's frame is parked, and a switch of jobs may come between  *)
(* any two steps.                                                          *)
(***************************************************************************)
\* the frame of the running invocation
Frame ==
    [ad_start |-> ad_start, ad_end |-> ad_end, all_segments |-> all_segments,
     post_id |-> post_id, first_seq_num |-> first_seq_num, last_seq_num |-> last_seq_num,
     pc |-> pc, context |-> context, upserts |-> upserts, model_call_id |-> model_call_id,
     llm_calls |-> llm_calls, response |-> response, raw_response |-> raw_response,
     parsed |-> parsed, start_side |-> start_side, end_side |-> end_side,
     caught |-> caught, updates |-> updates, writes |-> writes, record |-> record,
     result |-> result, escaped |-> escaped]

\* the frame of a call of refine that has not run yet
NewFrame(window, segments, request) ==
    [ad_start |-> Sec(window[1]), ad_end |-> Sec(window[2]), all_segments |-> segments,
     post_id |-> request[1], first_seq_num |-> request[2], last_seq_num |-> request[3],
     pc |-> "start", context |-> <<>>, upserts |-> 0, model_call_id |-> PyNone,
     llm_calls |-> 0, response |-> <<>>, raw_response |-> <<>>,
     parsed |-> ParsedNone, start_side |-> <<>>, end_side |-> <<>>,
     caught |-> <<>>, updates |-> <<>>, writes |-> <<>>, record |-> <<>>,
     result |-> <<>>, escaped |-> <<>>]

\* a switch of jobs that leaves raw_response in place, as an attribute of
\* the refiner shared by the jobs would be
SwitchJobSharedResponse ==
    /\ parked # <<>>
    /\ ad_start' = parked.frame.ad_start
    /\ ad_end' = parked.frame.ad_end
    /\ all_segments' = parked.frame.all_segments
    /\ post_id' = parked.frame.post_id
    /\ first_seq_num' = parked.frame.first_seq_num
    /\ last_seq_num' = parked.frame.last_seq_num
    /\ pc' = parked.frame.pc
    /\ context' = parked.frame.context
    /\ upserts' = parked.frame.upserts
    /\ model_call_id' = parked.frame.model_call_id
    /\ llm_calls' = parked.frame.llm_calls
    /\ response' = parked.frame.response
    /\ raw_response' = raw_response
    /\ parsed' = parked.frame.parsed
    /\ start_side' = parked.frame.start_side
    /\ end_side' = parked.frame.end_side
    /\ caught' = parked.frame.caught
    /\ updates' = parked.frame.updates
    /\ writes' = parked.frame.writes
    /\ record' = parked.frame.record
    /\ result' = parked.frame.result
    /\ escaped' = parked.frame.escaped
    /\ parked' = [job |-> 3 - parked.job, frame |-> Frame]
    /\ UNCHANGED <<call, returned, wrapper, billing_cache>>

\* the scheduler runs the other job: its frame becomes the running one
SwitchJob ==
    /\ parked # <<>>
    /\ ad_start' = parked.frame.ad_start
    /\ ad_end' = parked.frame.ad_end
    /\ all_segments' = parked.frame.all_segments
    /\ post_id' = parked.frame.post_id
    /\ first_seq_num' = parked.frame.first_seq_num
    /\ last_seq_num' = parked.frame.last_seq_num
    /\ pc' = parked.frame.pc
    /\ context' = parked.frame.context
    /\ upserts' = parked.frame.upserts
    /\ model_call_id' = parked.frame.model_call_id
    /\ llm_calls' = parked.frame.llm_calls
    /\ response' = parked.frame.response
    /\ raw_response' = parked.frame.raw_response
    /\ parsed' = parked.frame.parsed
    /\ start_side' = parked.frame.start_side
    /\ end_side' = parked.frame.end_side
    /\ caught' = parked.frame.caught
    /\ updates' = parked.frame.updates
    /\ writes' = parked.frame.writes
    /\ record' = parked.frame.record
    /\ result' = parked.frame.result
    /\ escaped' = parked.frame.escaped
    /\ parked' = [job |-> 3 - parked.job, frame |-> Frame]
    /\ UNCHANGED <<call, returned, wrapper, billing_cache>>

\* the windows, transcripts and record keys of the two jobs
JobWindows(job) == IF job = 1 THEN {<<10, 12>>} ELSE {<<40, 50>>}
JobTranscripts(job) ==
    IF job = 1
    THEN {<<Segment(1, Sec(10), Sec(12), TxtBA), Segment(2, Sec(12), Sec(60), TxtABA)>>}
    ELSE {<<Segment(0, Sec(0), Sec(10), TxtAB), Segment(2, NoTime, Sec(60), TxtA)>>}
JobRequests(job) ==
    IF job = 1
    THEN {<<PyInt(99), PyInt(1), PyInt(1)>>}
    ELSE {<<PyInt(99), PyInt(2), PyInt(2)>>, <<PyNone, PyNone, PyNone>>}

\* the responses the transport gives the jobs
JobPayloads ==
    {[refined_start_segment_seq |-> PyInt(2)],
     [refined_start_phrase |-> PhA],
     [refined_start_phrase |-> PhA, refined_end_segment_seq |-> PyInt(1)],
     [refined_start_segment_seq |-> PyInt(0), refined_end_phrase |-> PhZ]}
JobResponses ==
    {Response("list", StrictJson(d), FrStop) : d \in JobPayloads}
    \cup {Response("list", Content(<<Candidate(LoadError, NoRepair)>>, EmptyDict), FrLength),
          Response("bad", Content(<<>>, EmptyDict), PyNone)}

ConcurrentInit ==
    /\ \E w \in JobWindows(1) : ad_start = Sec(w[1]) /\ ad_end = Sec(w[2])
    /\ all_segments \in JobTranscripts(1)
    /\ \E r \in JobRequests(1) : post_id = r[1] /\ first_seq_num = r[2] /\ last_seq_num = r[3]
    /\ NotStarted
    /\ \E w \in JobWindows(2), segments \in JobTranscripts(2), r \in JobRequests(2) :
          parked = [job |-> 2, frame |-> NewFrame(w, segments, r)]

\* litellm.completion returning to the running job
JobCompletionReturns ==
    /\ CompletionReturns
    /\ response'[1] \in JobResponses

\* a step of the running job, or a switch of jobs
ConcurrentNext ==
    \/ SelectContext
    \/ RenderRaises
    \/ UpsertSkipped
    \/ UpsertModelCall
    \/ JobCompletionReturns
    \/ CompletionRaises
    \/ ReceiveResponse
    \/ ExtractRaises
    \/ ParseSucceeds
    \/ ParseFails
    \/ Estimate
    \/ EstimateRaises
    \/ GuardRejects
    \/ GuardAccepts
    \/ ReturnRefined
    \/ SwitchJob

ConcurrentSpec == ConcurrentInit /\ [][ConcurrentNext]_vars

\* the calls of _update_model_call of an invocation that runs alone, given
\* what the transport did (its response, or the exception refine caught)
UpdatesFor(outcome, exc_text) ==
    LET Update(status, raw, error_message) ==
            [status |-> status, response |-> raw, error_message |-> error_message]
    IN IF outcome = <<>>
       THEN <<Update("failed_permanent", <<>>, Some(exc_text[1]))>>
       ELSE LET c == ExtractContent(outcome[1])
                raw == <<c.v>>
                received == Update("received_response", raw, NoneStr)
            IN IF c.k = "exc" THEN <<Update("failed_permanent", <<>>, Some(c.msg))>>
               ELSE IF NotParsed(ParseJson(c.v))
               THEN <<received,
                      Update("success_heuristic", raw,
                             Some(IF ParseFailureReason(ExtractFinishReason(outcome[1])) = "length"
                                  THEN "parse_failed:length" ELSE "parse_failed:format"))>>
               ELSE LET payload == ExtractPayload(ParseJson(c.v).d)
                        s == StartOf(payload)
                        e == EndOf(payload)
                    IN IF EstimationError(payload) # <<>>
                       THEN <<received,
                              Update("failed_permanent", raw, Some(EstimationError(payload)[1]))>>
                       ELSE IF InvalidWindow(s.time, e.time)
                       THEN <<received,
                              Update("success_heuristic", raw, Some("invalid_refined_window"))>>
                       ELSE <<received,
                              Update(ResultStatus(s.changed, e.changed, s.err \o e.err), raw,
                                     JoinErrors(s.err \o e.err)),
                              Update("success", raw, NoneStr)>>

\* the statuses of the update calls that reached the job's record
WrittenStatuses ==
    LET update_writes == SelectSeq(writes, LAMBDA w : w.op = "update")
    IN [i \in 1..Len(update_writes) |-> update_writes[i].status]

\* the writes of an invocation that runs alone: every update when the
\* upsert returned an id, no update otherwise
WrittenStatusesFor(outcome, exc_text) ==
    IF model_call_id.t = "none" THEN <<>>
    ELSE [i \in 1..Len(UpdatesFor(outcome, exc_text)) |->
             UpdatesFor(outcome, exc_text)[i].status]

\* C19: when several jobs call refine at once, each with its own window,
\* segments and lifecycle record, every invocation returns the refinement
\* and issues the lifecycle updates on its own record that it returns and
\* issues when it runs alone, whatever the interleaving.
C19_JobsIndependent ==
    Returned =>
        /\ result[1] = RefinementFor(response)
        /\ updates = UpdatesFor(response, caught)
        /\ WrittenStatuses = WrittenStatusesFor(response, caught)

\* job 2 has returned a moved window while job 1, started before it, is
\* between its received_response update and its return
C19_Witness ==
    /\ parked # <<>> /\ parked.job = 1
    /\ parked.frame.pc \in {"received", "parsed", "estimated", "guarded"}
    /\ parked.frame.record = <<"received_response">>
    /\ Returned
    /\ ~IsFallback(result[1])
    /\ Len(updates) = 3


(***************************************************************************)
(* The strategies of the start side                                        *)
(***************************************************************************)
\* the segments whose sequence number is the payload's start sequence number
StartSegments(payload) ==
    IF PyIntOf(payload.start_segment_seq).k # "val" THEN {}
    ELSE {i \in 1..Len(all_segments) :
             all_segments[i].sequence_num = PyIntOf(payload.start_segment_seq).v}

StartPhraseGiven(payload) == HasText(payload.start_phrase)
StartWordGiven(payload) ==
    HasText(payload.start_word) \/ payload.start_word_index.t # "none"

\* what the phrase search gives for the payload's start phrase
StartPhraseEstimate(payload) ==
    EstimatePhraseTime(all_segments, context, payload.start_segment_seq,
                       payload.start_phrase, "start")

\* C20: _refine_start takes its strategies in strict priority order: (a) a
\* non-blank start phrase means phrase search only, and when nothing matches
\* the original ad_start comes back with changed = false and error
\* "start_phrase_not_found", no later strategy being tried; (b) else a start
\* sequence number that resolves to a segment means that segment's
\* start_time; (c) else a start word or word index means word-level
\* estimation; (d) else ad_start comes back unchanged with no error.
C20_StartStrategyPriority ==
    Estimated =>
        LET payload == ExtractPayload(parsed.d)
            side == start_side[1]
        IN /\ StartPhraseGiven(payload) =>
                /\ StartPhraseEstimate(payload).k = "none" =>
                      side.time = ad_start /\ ~side.changed
                      /\ side.err = <<"start_phrase_not_found">>
                /\ StartPhraseNowhere(payload) => StartPhraseEstimate(payload).k = "none"
                /\ StartPhraseEstimate(payload).k = "val" =>
                      /\ side.time = ConstrainStart(StartPhraseEstimate(payload).v, ad_start)
                      /\ side.changed /\ side.err = <<>>
           /\ (~StartPhraseGiven(payload) /\ StartSegments(payload) # {}) =>
                \A i \in StartSegments(payload) :
                    all_segments[i].start_time # NoTime =>
                        /\ side.time = ConstrainStart(all_segments[i].start_time, ad_start)
                        /\ side.changed = (side.time # ad_start)
                        /\ side.err = <<>>
           /\ (~StartPhraseGiven(payload) /\ StartSegments(payload) = {}
               /\ StartWordGiven(payload)) =>
                /\ side.time = ConstrainStart(EstimateWordTime(all_segments,
                                   payload.start_segment_seq, payload.start_word,
                                   payload.start_occurrence, payload.start_word_index).v,
                                   ad_start)
                /\ side.changed /\ side.err = <<>>
           /\ (~StartPhraseGiven(payload) /\ StartSegments(payload) = {}
               /\ ~StartWordGiven(payload)) =>
                side.time = ad_start /\ ~side.changed /\ side.err = <<>>

\* a start phrase found nowhere, with a sequence number that resolves to a
\* segment starting before ad_start: the start is left at ad_start
C20_Witness ==
    /\ Estimated
    /\ StartPhraseNowhere(ExtractPayload(parsed.d))
    /\ \E i \in StartSegments(ExtractPayload(parsed.d)) :
          /\ all_segments[i].start_time # NoTime
          /\ ConstrainStart(all_segments[i].start_time, ad_start) # ad_start
    /\ start_side[1].time = ad_start
    /\ start_side[1].err = <<"start_phrase_not_found">>


(***************************************************************************)
(* The segment-boundary strategy                                           *)
(***************************************************************************)
\* the segments whose sequence number is the payload's end sequence number
EndSegments(payload) ==
    IF PyIntOf(payload.end_segment_seq).k # "val" THEN {}
    ELSE {i \in 1..Len(all_segments) :
             all_segments[i].sequence_num = PyIntOf(payload.end_segment_seq).v}

\* C21: with no phrase and a sequence number that resolves to a segment,
\* _refine_start returns max(segment start_time, ad_start - 30) and
\* _refine_end returns min(segment end_time, ad_end + 15), each with error
\* None and changed true exactly when the time differs from the original
\* boundary.
C21_SegmentBoundary ==
    Estimated =>
        LET payload == ExtractPayload(parsed.d)
        IN /\ ~HasText(payload.start_phrase) =>
                \A i \in StartSegments(payload) :
                    all_segments[i].start_time # NoTime =>
                        /\ start_side[1].time =
                              Max2(all_segments[i].start_time,
                                   ad_start - Sec(MAX_START_EXTENSION_SECONDS))
                        /\ start_side[1].err = <<>>
                        /\ start_side[1].changed <=> start_side[1].time # ad_start
           /\ ~HasText(payload.end_phrase) =>
                \A i \in EndSegments(payload) :
                    /\ end_side[1].time =
                          Min2(all_segments[i].end_time,
                               ad_end + Sec(MAX_END_EXTENSION_SECONDS))
                    /\ end_side[1].err = <<>>
                    /\ end_side[1].changed <=> end_side[1].time # ad_end

\* a segment ending after ad_end, within the 15 seconds, named by the end
\* sequence number: the end moves to the segment's end
C21_Witness ==
    /\ Estimated
    /\ ~HasText(ExtractPayload(parsed.d).end_phrase)
    /\ \E i \in EndSegments(ExtractPayload(parsed.d)) :
          /\ all_segments[i].end_time > ad_end
          /\ end_side[1].time = all_segments[i].end_time
    /\ end_side[1].changed
    /\ end_side[1].err = <<>>


(***************************************************************************)
(* The word-level strategy                                                 *)
(***************************************************************************)
\* start_time + index * (duration / word_count) inside segment i, never past
\* the segment's end
WordInterpolation(i, payload) ==
    LET words == SplitWords(all_segments[i].text)
        duration == all_segments[i].end_time - all_segments[i].start_time
        index == ResolveWordIndex(words, payload.start_word, payload.start_occurrence,
                                  payload.start_word_index)
    IN Min2(all_segments[i].start_time + (index * duration) \div Len(words),
            all_segments[i].end_time)

\* C22: with no start phrase and a start word or word index present, the
\* returned start is the per-word interpolation inside the resolved segment,
\* segment_start + index * (segment_duration / word_count), never later than
\* the segment's end nor earlier than ad_start - 30, and changed is true.
C22_WordInterpolation ==
    Estimated =>
        LET payload == ExtractPayload(parsed.d)
        IN (~StartPhraseGiven(payload) /\ StartWordGiven(payload)) =>
              \A i \in StartSegments(payload) :
                  (/\ all_segments[i].start_time # NoTime
                   /\ all_segments[i].end_time > all_segments[i].start_time
                   /\ SplitWords(all_segments[i].text) # <<>>) =>
                      /\ start_side[1].time =
                            Max2(WordInterpolation(i, payload),
                                 ad_start - Sec(MAX_START_EXTENSION_SECONDS))
                      /\ start_side[1].changed


(***************************************************************************)
(* The helpers, called on their own                                        *)
(***************************************************************************)
MaxWords == 5
MaxPhraseTokens == 5

\* the lists of at most n members of S
ListsUpTo(S, n) == UNION {[1..k -> S] : k \in 0..n}

\* lower-cased tokens, as _estimate_phrase_time hands them over
LowerTokens == {<<"a">>, <<"b">>}

FindPhraseMatchCalls(fn) ==
    {[fn |-> fn, words |-> words, phrase_tokens |-> phrase_tokens,
      direction |-> direction, max_words |-> MAX_PHRASE_WORDS] :
        words \in ListsUpTo(LowerTokens, MaxWords),
        phrase_tokens \in ListsUpTo(LowerTokens, MaxPhraseTokens),
        direction \in {"start", "end"}}

MaxCallSegs == 3

\* the segments a transcript may hold under a sequence number: ten seconds
\* of two words or of punctuation only, or one word of no duration
CallSegmentKinds == {"a b", "b. A", "dots", "still"}
CallSegment(seq, kind) ==
    CASE kind = "a b" -> Segment(seq, Sec(10 * seq), Sec(10 * seq + 10), TxtAB)
      [] kind = "b. A" -> Segment(seq, Sec(10 * seq), Sec(10 * seq + 10), TxtBA)
      [] kind = "dots" -> Segment(seq, Sec(10 * seq), Sec(10 * seq + 10), TxtDots)
      [] OTHER -> Segment(seq, Sec(10 * seq), Sec(10 * seq), TxtA)

\* the segments of the chosen kinds, in ascending order of the sequence
\* numbers that have one
CallTranscript(chosen) ==
    LET held == {seq \in DOMAIN chosen : chosen[seq] # "none"}
        Nth(k) == CHOOSE seq \in held : Cardinality({q \in held : q <= seq}) = k
    IN [k \in 1..Cardinality(held) |-> CallSegment(Nth(k), chosen[Nth(k)])]

\* transcripts of some of the sequence numbers 1..n
CallTranscripts(n) ==
    {CallTranscript(chosen) :
        chosen \in [1..n -> CallSegmentKinds \cup {"none"}]}

\* the context handed over: the transcript or a part of it, in either order
CallContexts(segments) ==
    {segments, Reverse(segments)}
    \cup (IF segments = <<>> THEN {} ELSE {Tail(segments), SubSeq(segments, 1, Len(segments) - 1)})

EstimatePhraseTimeCalls(fn) ==
    UNION {{[fn |-> fn, all_segments |-> segments,
             context_segments |-> context_segments, preferred_segment_seq |-> preferred,
             phrase |-> phrase, direction |-> direction] :
               context_segments \in CallContexts(segments),
               preferred \in {PyNone, PyInt(1), PyInt(3), PyInt(7)},
               phrase \in {PhBA, PhZ},
               direction \in {"start", "end"}}
           : segments \in CallTranscripts(MaxCallSegs)}

MaxIndexedWords == 3

\* tokens as _split_words leaves them: case kept
CasedTokens == {<<"a">>, <<"A">>, <<"b">>}

ResolveWordIndexCalls(fn) ==
    {[fn |-> fn, words |-> words, word |-> word,
      occurrence |-> occurrence, word_index |-> word_index] :
        words \in ListsUpTo(CasedTokens, MaxIndexedWords),
        word \in {PyNone, PyStr(<<"a">>), PyStr(<<"A">>), PyStr(<<"b", ",">>),
                  PyStr(<<" ", "b">>), PyStr(<<"z">>), PyStr(<<".">>)},
        occurrence \in {PyNone, PyStr(<<"l", "a", "s", "t">>), PyStr(<<"L", "A", "S", "T">>),
                        PyStr(<<"f", "i", "r", "s", "t">>)},
        word_index \in {PyNone, PyInt(0 - 1), PyInt(1), PyInt(5), PyStr(<<"1">>)}}

\* a field the text does not hold
Absent == [t |-> "absent", n |-> 0, s |-> <<>>]
Member(key, value) == IF value = Absent THEN <<>> ELSE <<<<key, value>>>>

\* the members of a response: each sequence field null, an integer or
\* absent, the start phrase null, blank, a phrase or absent
PartialFieldLists ==
    {Member("refined_start_segment_seq", start_seq)
       \o Member("refined_start_phrase", start_phrase)
       \o Member("refined_end_segment_seq", end_seq)
       \o Member("end_adjustment_reason", end_reason) :
        start_seq \in {Absent, PyNone, PyInt(7)},
        end_seq \in {Absent, PyNone, PyInt(0 - 3), PyInt(345)},
        start_phrase \in {Absent, PyNone, PyStr(<<>>), PyStr(<<" ">>),
                          PyStr(<<"i", "f", " ", "y", "o", "u">>)},
        end_reason \in {Absent, PyStr(<<"q">>)}}

\* the text of the members: a whole object in one of the layouts, or an
\* object that stops after its last member
PartialText(fields, layout) ==
    IF layout = "open" THEN RenderedUpTo(fields, Len(fields), "indented")
    ELSE FullText(fields, layout)

ParsePartialJsonFieldsCalls(fn) ==
    {[fn |-> fn, fields |-> fields,
      content |-> PartialText(fields, layout)] :
        fields \in PartialFieldLists, layout \in Layouts \cup {"open"}}

MaxScanLen == 7

\* the characters the scanner tells apart, and one it does not
ScanChars == {"{", "}", Quote, Backslash}

ExtractJsonObjectsCalls(fn) ==
    {[fn |-> fn, text |-> text] :
        text \in ListsUpTo(ScanChars, MaxScanLen)}

MaxTextLen == 4

\* the letter e with an acute accent, as in "café": alphanumeric, and outside
\* A-Za-z0-9
EAcute == "e-acute"

\* a letter of either case, an apostrophe, punctuation, a blank, and a
\* letter with an accent
TextChars == {"a", "B", "'", ".", " ", EAcute}

SplitWordsCalls(fn) ==
    {[fn |-> fn, text |-> text] : text \in ListsUpTo(TextChars, MaxTextLen)}

\* the calls of each helper
Helpers ==
    {"_find_phrase_match", "_estimate_phrase_time", "_resolve_word_index",
     "_parse_partial_json_fields", "_extract_json_objects", "_split_words"}
Calls(fn) ==
    CASE fn = "_find_phrase_match" -> FindPhraseMatchCalls(fn)
      [] fn = "_estimate_phrase_time" -> EstimatePhraseTimeCalls(fn)
      [] fn = "_resolve_word_index" -> ResolveWordIndexCalls(fn)
      [] fn = "_parse_partial_json_fields" -> ParsePartialJsonFieldsCalls(fn)
      [] fn = "_extract_json_objects" -> ExtractJsonObjectsCalls(fn)
      [] OTHER -> SplitWordsCalls(fn)

\* what a helper called on its own leaves alone
refinement == <<ad_start, ad_end, all_segments, post_id, first_seq_num, last_seq_num,
                pc, context, upserts, model_call_id, llm_calls, response, raw_response,
                parsed, start_side, end_side, caught, updates, writes, record, result,
                escaped, parked, wrapper, billing_cache>>

\* a helper is about to be called with its arguments
CallInit ==
    /\ ad_start = Sec(10) /\ ad_end = Sec(12)
    /\ all_segments = <<>>
    /\ post_id = PyNone /\ first_seq_num = PyNone /\ last_seq_num = PyNone
    /\ pc = "helper"
    /\ context = <<>>
    /\ upserts = 0
    /\ model_call_id = PyNone
    /\ llm_calls = 0
    /\ response = <<>>
    /\ raw_response = <<>>
    /\ parsed = ParsedNone
    /\ start_side = <<>>
    /\ end_side = <<>>
    /\ caught = <<>>
    /\ updates = <<>>
    /\ writes = <<>>
    /\ record = <<>>
    /\ result = <<>>
    /\ escaped = <<>>
    /\ parked = <<>>
    /\ \E fn \in Helpers : \E c \in Calls(fn) : call = <<c>>
    /\ returned = <<>>
    /\ wrapper = <<>>
    /\ billing_cache = <<>>

Calling(fn) == call # <<>> /\ call[1].fn = fn /\ returned = <<>>
HelperReturned(fn) == call # <<>> /\ call[1].fn = fn /\ returned # <<>>

FindPhraseMatchCall ==
    /\ Calling("_find_phrase_match")
    /\ returned' = <<FindPhraseMatch(call[1].words, call[1].phrase_tokens,
                                     call[1].direction, call[1].max_words)>>
    /\ UNCHANGED <<refinement, call>>

\* _estimate_phrase_time: the candidates it builds and what it returns
EstimatePhraseTimeCall ==
    /\ Calling("_estimate_phrase_time")
    /\ returned' =
          <<[candidates |-> PhraseCandidates(call[1].all_segments, call[1].context_segments,
                                             call[1].preferred_segment_seq,
                                             call[1].direction),
             value |-> EstimatePhraseTime(call[1].all_segments, call[1].context_segments,
                                          call[1].preferred_segment_seq, call[1].phrase,
                                          call[1].direction)]>>
    /\ UNCHANGED <<refinement, call>>

ResolveWordIndexCall ==
    /\ Calling("_resolve_word_index")
    /\ returned' = <<ResolveWordIndex(call[1].words, call[1].word, call[1].occurrence,
                                      call[1].word_index)>>
    /\ UNCHANGED <<refinement, call>>

ParsePartialJsonFieldsCall ==
    /\ Calling("_parse_partial_json_fields")
    /\ returned' = <<ParsePartialJsonFields(call[1].content)>>
    /\ UNCHANGED <<refinement, call>>

ExtractJsonObjectsCall ==
    /\ Calling("_extract_json_objects")
    /\ returned' = <<ExtractJsonObjects(call[1].text)>>
    /\ UNCHANGED <<refinement, call>>

SplitWordsCall ==
    /\ Calling("_split_words")
    /\ returned' = <<SplitWords(call[1].text)>>
    /\ UNCHANGED <<refinement, call>>

CallNext ==
    \/ FindPhraseMatchCall
    \/ EstimatePhraseTimeCall
    \/ ResolveWordIndexCall
    \/ ParsePartialJsonFieldsCall
    \/ ExtractJsonObjectsCall
    \/ SplitWordsCall

CallSpec == CallInit /\ [][CallNext]_vars

(***************************************************************************)
(* The phrase match                                                        *)
(***************************************************************************)
\* the 0-based positions of words at which run occurs contiguously
Occurrences(words, run) ==
    {i \in 0..(Len(words) - Len(run)) : \A j \in 1..Len(run) : words[i + j] = run[j]}

\* the leading (start) or trailing (end) k of the phrase tokens, of which at
\* most 4 count
SubRun(phrase_tokens, direction, k) ==
    LET n == Len(phrase_tokens)
        base == IF direction = "start" THEN SubSeq(phrase_tokens, 1, Min2(4, n))
                ELSE SubSeq(phrase_tokens, Max2(1, n - 3), n)
    IN IF direction = "start" THEN SubSeq(base, 1, k)
       ELSE SubSeq(base, Len(base) - k + 1, Len(base))

\* C23: _find_phrase_match uses at most 4 phrase tokens (the leading 4 for
\* start, the trailing 4 for end), takes the longest sub-run (a prefix for
\* start, a suffix for end) that occurs contiguously in the words, and returns
\* the word indices [i, j] of its leftmost (start) or rightmost (end)
\* occurrence; it returns no match only when not even a single-token sub-run
\* occurs.
C23_LongestSubRunMatch ==
    HelperReturned("_find_phrase_match") =>
        LET words == call[1].words
            tokens == call[1].phrase_tokens
            direction == call[1].direction
            ks == {k \in 1..Min2(4, Len(tokens)) :
                      Occurrences(words, SubRun(tokens, direction, k)) # {}}
        IN IF ks = {} THEN returned[1] = NoVal
           ELSE LET k == MaxOf(ks)
                    found == Occurrences(words, SubRun(tokens, direction, k))
                    i == IF direction = "start" THEN MinOf(found) ELSE MaxOf(found)
                IN returned[1] = Val(<<i, i + k - 1>>)

\* a phrase of more than 4 tokens whose leading 4 do not occur, a shorter
\* prefix occurring twice: the first occurrence is returned
C23_Witness ==
    /\ HelperReturned("_find_phrase_match")
    /\ call[1].direction = "start"
    /\ Len(call[1].phrase_tokens) > 4
    /\ returned[1].k = "val"
    /\ returned[1].v[2] - returned[1].v[1] + 1 \in {2, 3}
    /\ Cardinality(Occurrences(call[1].words,
                               SubRun(call[1].phrase_tokens, "start",
                                      returned[1].v[2] - returned[1].v[1] + 1))) > 1


(***************************************************************************)
(* The order of the phrase search                                          *)
(***************************************************************************)
Members(s) == {s[i] : i \in 1..Len(s)}

\* the segments of the call that carry the preferred sequence number
Preferred(c) ==
    IF c.preferred_segment_seq.t # "int" THEN {}
    ELSE {seg \in Members(c.all_segments) :
             seg.sequence_num = c.preferred_segment_seq.n}

\* a segment the search does not skip, and in which the phrase matches
Matching(seg, c) ==
    /\ seg.end_time - seg.start_time > 0
    /\ SplitWords(seg.text) # <<>>
    /\ FindPhraseMatch(LowerAll(SplitWords(seg.text)), PhraseTokens(c.phrase),
                       c.direction, 4).k = "val"

\* the estimate inside a matching segment: the start of the first matched
\* word, or the end of the last one, at a constant duration per word
EstimateIn(seg, c) ==
    LET words == LowerAll(SplitWords(seg.text))
        match == FindPhraseMatch(words, PhraseTokens(c.phrase), c.direction, 4).v
        duration == seg.end_time - seg.start_time
        word == IF c.direction = "start" THEN match[1] ELSE match[2] + 1
    IN Min2(seg.start_time + (word * duration) \div Len(words), seg.end_time)

\* C24: _estimate_phrase_time examines the preferred segment first, then the
\* context segments in ascending sequence order for the start and descending
\* for the end, never the preferred one twice; it skips segments of zero
\* duration or without tokens, returns the estimate of the first segment in
\* which the phrase matches, and None when none matches.
C24_SearchOrder ==
    HelperReturned("_estimate_phrase_time") =>
        LET c == call[1]
            candidates == returned[1].candidates
            rest == IF Preferred(c) # {} THEN Tail(candidates) ELSE candidates
            hits == {i \in 1..Len(candidates) : Matching(candidates[i], c)}
        IN /\ Preferred(c) # {} => candidates # <<>> /\ candidates[1] \in Preferred(c)
           /\ Members(rest) = Members(c.context_segments) \ Preferred(c)
           /\ \A i, j \in 1..Len(rest) :
                 i < j => IF c.direction = "start"
                          THEN rest[i].sequence_num < rest[j].sequence_num
                          ELSE rest[i].sequence_num > rest[j].sequence_num
           /\ IF hits = {} THEN returned[1].value = NoVal
              ELSE returned[1].value = Val(EstimateIn(candidates[MinOf(hits)], c))

\* an end search whose preferred segment is examined and does not match, the
\* phrase being found in the second of the two other segments, taken from
\* the highest sequence number down
C24_Witness ==
    /\ HelperReturned("_estimate_phrase_time")
    /\ call[1].direction = "end"
    /\ Preferred(call[1]) # {}
    /\ Len(returned[1].candidates) = 3
    /\ returned[1].candidates[2].sequence_num > returned[1].candidates[3].sequence_num
    /\ ~Matching(returned[1].candidates[1], call[1])
    /\ ~Matching(returned[1].candidates[2], call[1])
    /\ Matching(returned[1].candidates[3], call[1])
    /\ returned[1].value = Val(EstimateIn(returned[1].candidates[3], call[1]))


(***************************************************************************)
(* The word index                                                          *)
(***************************************************************************)
\* the 0-based indices of the tokens equal to text, case apart
TokensEqual(words, text) ==
    {i \in 0..(Len(words) - 1) : Lower(words[i + 1]) = Lower(text)}

\* a payload value as text: None has none
TextOf(x) == IF x.t = "none" THEN <<>> ELSE PyStrOf(x)

\* the explicit numeric word index clamped into [0, word_count - 1], index 0
\* without one
ClampedIndex(words, word_index) ==
    IF PyIntOf(word_index).k = "val"
    THEN Max2(0, Min2(PyIntOf(word_index).v, Len(words) - 1))
    ELSE 0

OccurrenceLast == <<"l", "a", "s", "t">>

FieldOf(fields, key) ==
    IF \E i \in 1..Len(fields) : fields[i][1] = key
    THEN fields[CHOOSE i \in 1..Len(fields) : fields[i][1] = key][2]
    ELSE Absent

\* C26: partial field extraction keeps null distinct from absent for the two
\* sequence fields: a field the text holds with the value null is in the
\* payload as None, one it holds with an integer is in the payload as that
\* integer, one it does not hold is not in the payload; a phrase or reason
\* field is in the payload only when the text holds it with a non-blank
\* quoted string.
C26_NullNotAbsent ==
    HelperReturned("_parse_partial_json_fields") =>
        /\ \A key \in {"refined_start_segment_seq", "refined_end_segment_seq"} :
              IF FieldOf(call[1].fields, key) = Absent
              THEN key \notin DOMAIN returned[1]
              ELSE /\ key \in DOMAIN returned[1]
                   /\ returned[1][key] = FieldOf(call[1].fields, key)
        /\ \A key \in {"refined_start_phrase", "refined_end_phrase",
                       "start_adjustment_reason", "end_adjustment_reason"} :
              key \in DOMAIN returned[1] =>
                  /\ FieldOf(call[1].fields, key).t = "str"
                  /\ Strip(FieldOf(call[1].fields, key).s) # <<>>

\* a text with one sequence field null, the other missing, a blank phrase
\* and a reason: the payload holds None and the reason, nothing else
C26_Witness ==
    /\ HelperReturned("_parse_partial_json_fields")
    /\ FieldOf(call[1].fields, "refined_start_segment_seq") = PyNone
    /\ FieldOf(call[1].fields, "refined_end_segment_seq") = Absent
    /\ FieldOf(call[1].fields, "refined_start_phrase") = PyStr(<<" ">>)
    /\ DOMAIN returned[1] = {"refined_start_segment_seq", "end_adjustment_reason"}
    /\ returned[1]["refined_start_segment_seq"] = PyNone
    /\ returned[1]["end_adjustment_reason"] = PyStr(<<"q">>)


(***************************************************************************)
(* The balanced-brace substrings                                           *)
(***************************************************************************)
\* where the character at position i stands: outside any double-quoted
\* string, inside one, or inside one right after a backslash
RECURSIVE StringState(_, _)
StringState(text, i) ==
    IF i = 1 THEN "outside"
    ELSE LET before == StringState(text, i - 1)
             char == text[i - 1]
         IN CASE before = "escaped" -> "inside"
              [] before = "inside" ->
                   IF char = Backslash THEN "escaped"
                   ELSE IF char = Quote THEN "outside" ELSE "inside"
              [] OTHER -> IF char = Quote THEN "inside" ELSE "outside"

\* the brace depth after the first i characters: braces outside strings
\* count, a closing brace at depth 0 does not
RECURSIVE BraceDepth(_, _)
BraceDepth(text, i) ==
    IF i = 0 THEN 0
    ELSE LET depth == BraceDepth(text, i - 1)
         IN IF StringState(text, i) # "outside" THEN depth
            ELSE IF text[i] = "{" THEN depth + 1
            ELSE IF text[i] = "}" /\ depth > 0 THEN depth - 1
            ELSE depth

\* the opening braces met at depth 0, the closing braces that return the
\* depth to 0
TopOpens(text) ==
    {i \in 1..Len(text) : BraceDepth(text, i - 1) = 0 /\ BraceDepth(text, i) = 1}
TopCloses(text) ==
    {i \in 1..Len(text) : BraceDepth(text, i - 1) = 1 /\ BraceDepth(text, i) = 0}

\* the k-th member of a set of positions, in ascending order
Kth(S, k) == CHOOSE x \in S : Cardinality({y \in S : y <= x}) = k

\* C27: _extract_json_objects returns, in order of appearance, exactly the
\* top-level balanced-brace substrings of its input: each starts at a '{' met
\* at depth 0 and ends at the '}' that returns the depth to 0, and a brace
\* inside a double-quoted string, including after a backslash-escaped quote,
\* never changes the depth.
C27_BalancedObjects ==
    HelperReturned("_extract_json_objects") =>
        LET text == call[1].text
            closes == TopCloses(text)
        IN /\ Len(returned[1]) = Cardinality(closes)
           /\ \A k \in 1..Len(returned[1]) :
                 LET end == Kth(closes, k)
                     begin == MaxOf({i \in TopOpens(text) : i < end})
                 IN returned[1][k] = SubSeq(text, begin, end)

\* {"\"}"} : the closing brace after the escaped quote is still inside the
\* string, and the whole text is the one object
C27_Witness ==
    /\ HelperReturned("_extract_json_objects")
    /\ call[1].text = <<"{", Quote, Backslash, Quote, "}", Quote, "}">>
    /\ returned[1] = <<call[1].text>>


(***************************************************************************)
(* The tokenizer                                                           *)
(***************************************************************************)
\* the alphanumeric characters and the apostrophe
Alphanumeric == Letters \cup Digits \cup {EAcute}
KeptAtEdges == Alphanumeric \cup {"'"}

\* the maximal runs of characters that are not whitespace, as <<first, last>>
Runs(text) ==
    {r \in (1..Len(text)) \X (1..Len(text)) :
        /\ r[1] <= r[2]
        /\ \A i \in r[1]..r[2] : text[i] \notin Whitespace
        /\ r[1] = 1 \/ text[r[1] - 1] \in Whitespace
        /\ r[2] = Len(text) \/ text[r[2] + 1] \in Whitespace}

\* a run without its leading and trailing characters that are not in keep
StrippedRun(text, r, keep) ==
    LET kept == {i \in r[1]..r[2] : text[i] \in keep}
    IN IF kept = {} THEN <<>> ELSE SubSeq(text, MinOf(kept), MaxOf(kept))

\* the stripped runs that are not empty, in order
TokensOf(text, keep) ==
    LET runs == {r \in Runs(text) : StrippedRun(text, r, keep) # <<>>}
        Run(k) == CHOOSE r \in runs : Cardinality({q \in runs : q[1] <= r[1]}) = k
    IN [k \in 1..Cardinality(runs) |-> StrippedRun(text, Run(k), keep)]

\* " ".join(tokens)
RECURSIVE JoinWithSpaces(_)
JoinWithSpaces(tokens) ==
    IF tokens = <<>> THEN <<>>
    ELSE IF Len(tokens) = 1 THEN tokens[1]
    ELSE tokens[1] \o <<" ">> \o JoinWithSpaces(Tail(tokens))

\* C28: _split_words is total: it returns the whitespace-separated tokens in
\* order, each stripped of its leading and trailing characters that are
\* neither alphanumeric nor an apostrophe, case preserved, without any empty
\* token, the empty sequence for the empty string, and tokenizing its
\* space-joined result gives the same tokens.
C28_SplitWordsTotal ==
    HelperReturned("_split_words") =>
        /\ returned[1] = TokensOf(call[1].text, KeptAtEdges)
        /\ \A k \in 1..Len(returned[1]) : returned[1][k] # <<>>
        /\ call[1].text = <<>> => returned[1] = <<>>
        /\ SplitWords(JoinWithSpaces(returned[1])) = returned[1]


(***************************************************************************)
(* timeout_decorator: the calling thread in wrapper and the worker thread  *)
(* in target                                                               *)
(***************************************************************************)
MaxClock == 3

\* the refinement and its helpers, not running
Resting(at) ==
    /\ ad_start = Sec(10) /\ ad_end = Sec(12)
    /\ all_segments = <<>>
    /\ post_id = PyNone /\ first_seq_num = PyNone /\ last_seq_num = PyNone
    /\ pc = at
    /\ context = <<>>
    /\ upserts = 0
    /\ model_call_id = PyNone
    /\ llm_calls = 0
    /\ response = <<>>
    /\ raw_response = <<>>
    /\ parsed = ParsedNone
    /\ start_side = <<>>
    /\ end_side = <<>>
    /\ caught = <<>>
    /\ updates = <<>>
    /\ writes = <<>>
    /\ record = <<>>
    /\ result = <<>>
    /\ escaped = <<>>
    /\ parked = <<>>
    /\ call = <<>>
    /\ returned = <<>>

\* what the two threads of a wrapped call leave alone
besidesWrapper == <<ad_start, ad_end, all_segments, post_id, first_seq_num, last_seq_num,
                    pc, context, upserts, model_call_id, llm_calls, response, raw_response,
                    parsed, start_side, end_side, caught, updates, writes, record, result,
                    escaped, parked, call, returned, billing_cache>>

\* result[0] before the worker assigns it
Pending == <<>>
\* the time at which func ended, while it has not
NotFinished == 0 - 1
\* the timeouts of the decorator, in ticks of the clock
Timeouts == {1, 2}

\* wrapper has been called: the event and the result list are made (lines
\* 22-24), the thread is not started; func will return a value or raise
TimeoutInit ==
    /\ Resting("wrapped")
    /\ billing_cache = <<>>
    /\ \E timeout \in Timeouts, raises \in BOOLEAN :
          wrapper = [timeout |-> timeout, raises |-> raises, pc |-> "start",
                     thread |-> "created", timeout_flag |-> FALSE, result |-> Pending,
                     now |-> 0, finished_at |-> NotFinished, outcome |-> <<>>]

\* time passes; now is the time since thread.start(), which is when func
\* begins and when join begins to wait, and join waits no longer than the
\* timeout
ClockTicks ==
    /\ wrapper.pc # "start"
    /\ ~(wrapper.pc = "joining" /\ wrapper.now >= wrapper.timeout)
    /\ wrapper.now < MaxClock
    /\ wrapper' = [wrapper EXCEPT !.now = @ + 1]
    /\ UNCHANGED besidesWrapper

\* thread.start()
ThreadStarts ==
    /\ wrapper.pc = "start"
    /\ wrapper' = [wrapper EXCEPT !.pc = "joining", !.thread = "running"]
    /\ UNCHANGED besidesWrapper

\* target: result[0] = func(*args, **kwargs), func returning
FuncReturns ==
    /\ wrapper.thread = "running" /\ ~wrapper.raises
    /\ wrapper' = [wrapper EXCEPT !.result = <<"value">>, !.finished_at = wrapper.now,
                                  !.thread = "finally"]
    /\ UNCHANGED besidesWrapper

\* target: func raising, the exception printed
FuncRaises ==
    /\ wrapper.thread = "running" /\ wrapper.raises
    /\ wrapper' = [wrapper EXCEPT !.finished_at = wrapper.now, !.thread = "finally"]
    /\ UNCHANGED besidesWrapper

\* target: finally timeout_flag.set(), and the thread ends
FlagSet ==
    /\ wrapper.thread = "finally"
    /\ wrapper' = [wrapper EXCEPT !.timeout_flag = TRUE, !.thread = "ended"]
    /\ UNCHANGED besidesWrapper

\* thread.join(timeout) returning because the thread has ended
JoinReturns ==
    /\ wrapper.pc = "joining" /\ wrapper.thread = "ended"
    /\ wrapper' = [wrapper EXCEPT !.pc = "joined"]
    /\ UNCHANGED besidesWrapper

\* thread.join(timeout) returning because the timeout has passed
JoinTimesOut ==
    /\ wrapper.pc = "joining" /\ wrapper.thread # "ended"
    /\ wrapper.now >= wrapper.timeout
    /\ wrapper' = [wrapper EXCEPT !.pc = "joined"]
    /\ UNCHANGED besidesWrapper

\* if not timeout_flag.is_set(): raise TimeoutException
FlagNotSet ==
    /\ wrapper.pc = "joined" /\ ~wrapper.timeout_flag
    /\ wrapper' = [wrapper EXCEPT !.pc = "raised", !.outcome = <<"TimeoutException">>]
    /\ UNCHANGED besidesWrapper

\* timeout_flag.is_set() is true
FlagSeen ==
    /\ wrapper.pc = "joined" /\ wrapper.timeout_flag
    /\ wrapper' = [wrapper EXCEPT !.pc = "flag_seen"]
    /\ UNCHANGED besidesWrapper

\* if result[0] is pending: raise TimeoutException
ResultPending ==
    /\ wrapper.pc = "flag_seen" /\ wrapper.result = Pending
    /\ wrapper' = [wrapper EXCEPT !.pc = "raised", !.outcome = <<"TimeoutException">>]
    /\ UNCHANGED besidesWrapper

\* return cast(T, result[0])
ResultReturned ==
    /\ wrapper.pc = "flag_seen" /\ wrapper.result # Pending
    /\ wrapper' = [wrapper EXCEPT !.pc = "returned", !.outcome = <<"returned", wrapper.result[1]>>]
    /\ UNCHANGED besidesWrapper

TimeoutNext ==
    \/ ClockTicks
    \/ ThreadStarts
    \/ FuncReturns
    \/ FuncRaises
    \/ FlagSet
    \/ JoinReturns
    \/ JoinTimesOut
    \/ FlagNotSet
    \/ FlagSeen
    \/ ResultPending
    \/ ResultReturned

TimeoutSpec == TimeoutInit /\ [][TimeoutNext]_vars

\* func ran for longer than the timeout: it ended after it, or has not ended
\* when wrapper is through
ExceededTimeout ==
    \/ wrapper.finished_at = NotFinished
    \/ wrapper.finished_at > wrapper.timeout

\* C29: under every interleaving of the calling thread and the worker
\* thread, if the execution of the wrapped function exceeds the timeout, the
\* wrapper raises TimeoutException and does not return a value.
C29_TimeoutRaises ==
    (wrapper # <<>> /\ wrapper.pc \in {"raised", "returned"} /\ ExceededTimeout) =>
        wrapper.outcome = <<"TimeoutException">>


(***************************************************************************)
(* billing_cache: threads calling get_subscription_amount and              *)
(* set_subscription_amount                                                 *)
(***************************************************************************)
CACHE_TTL_SECONDS == 3600
MaxTicks == 4

\* the clock moves by half the time to live at a time
TickSeconds == CACHE_TTL_SECONDS \div 2

CallerThreads == {1, 2}
SubscriptionIds == {"sub_a", "sub_b"}
AmountsCents == {100, 200}

\* _lock held by no thread
Unlocked == 0

\* a thread outside the two functions
Idle == [pc |-> "idle", subscription_id |-> "", amount_cents |-> 0, cached |-> <<>>,
         read_at |-> 0, returns |-> <<>>]

\* time.time() < expires_at
NotExpiredInclusive(now, expires_at) == now <= expires_at
NotExpired(now, expires_at) == now < expires_at

besidesBillingCache == <<ad_start, ad_end, all_segments, post_id, first_seq_num,
                         last_seq_num, pc, context, upserts, model_call_id, llm_calls,
                         response, raw_response, parsed, start_side, end_side, caught,
                         updates, writes, record, result, escaped, parked, call, returned,
                         wrapper>>

\* the module is loaded: _cache is empty and _lock free; completed is the last
\* set_subscription_amount that has returned, for each id
BillingInit ==
    /\ Resting("billing")
    /\ wrapper = <<>>
    /\ billing_cache = [cache |-> <<>>, lock |-> Unlocked, now |-> 0,
                        threads |-> [t \in CallerThreads |-> Idle],
                        completed |-> [id \in SubscriptionIds |-> <<>>]]

Thread(t) == billing_cache.threads[t]

\* time.time() moves on
BillingClockTicks ==
    /\ billing_cache.now < MaxTicks * TickSeconds
    /\ billing_cache' = [billing_cache EXCEPT !.now = @ + TickSeconds]
    /\ UNCHANGED besidesBillingCache

\* a thread calls get_subscription_amount(subscription_id)
GetCalled ==
    \E t \in CallerThreads, id \in SubscriptionIds :
        /\ Thread(t).pc = "idle"
        /\ billing_cache' = [billing_cache EXCEPT
               !.threads[t] = [Idle EXCEPT !.pc = "get", !.subscription_id = id]]
        /\ UNCHANGED besidesBillingCache

\* a thread calls set_subscription_amount(subscription_id, amount_cents)
SetCalled ==
    \E t \in CallerThreads, id \in SubscriptionIds, amount \in AmountsCents :
        /\ Thread(t).pc = "idle"
        /\ billing_cache' = [billing_cache EXCEPT
               !.threads[t] = [Idle EXCEPT !.pc = "set", !.subscription_id = id,
                                           !.amount_cents = amount]]
        /\ UNCHANGED besidesBillingCache

\* with _lock: entered by a thread in either function
LockAcquired ==
    \E t \in CallerThreads :
        /\ Thread(t).pc \in {"get", "set"}
        /\ billing_cache.lock = Unlocked
        /\ billing_cache' = [billing_cache EXCEPT
               !.lock = t,
               !.threads[t].pc = IF Thread(t).pc = "get" THEN "get_locked" ELSE "set_locked"]
        /\ UNCHANGED besidesBillingCache

\* cached = _cache.get(subscription_id), nothing cached: return None
GetMisses ==
    \E t \in CallerThreads :
        /\ Thread(t).pc = "get_locked"
        /\ Thread(t).subscription_id \notin DOMAIN billing_cache.cache
        /\ billing_cache' = [billing_cache EXCEPT
               !.threads[t].pc = "get_leaving",
               !.threads[t].read_at = billing_cache.now,
               !.threads[t].returns = <<PyNone>>]
        /\ UNCHANGED besidesBillingCache

\* cached = _cache.get(subscription_id), an entry cached
GetHits ==
    \E t \in CallerThreads :
        /\ Thread(t).pc = "get_locked"
        /\ Thread(t).subscription_id \in DOMAIN billing_cache.cache
        /\ billing_cache' = [billing_cache EXCEPT
               !.threads[t].pc = "get_cached",
               !.threads[t].cached = <<billing_cache.cache[Thread(t).subscription_id]>>]
        /\ UNCHANGED besidesBillingCache

\* time.time() < expires_at: return amount
GetReturnsAmount ==
    \E t \in CallerThreads :
        /\ Thread(t).pc = "get_cached"
        /\ NotExpired(billing_cache.now, Thread(t).cached[1].expires_at)
        /\ billing_cache' = [billing_cache EXCEPT
               !.threads[t].pc = "get_leaving",
               !.threads[t].read_at = billing_cache.now,
               !.threads[t].returns = <<PyInt(Thread(t).cached[1].amount)>>]
        /\ UNCHANGED besidesBillingCache

\* else: del _cache[subscription_id], return None
GetDeletesExpired ==
    \E t \in CallerThreads :
        /\ Thread(t).pc = "get_cached"
        /\ ~NotExpired(billing_cache.now, Thread(t).cached[1].expires_at)
        /\ billing_cache' = [billing_cache EXCEPT
               !.cache = [id \in DOMAIN billing_cache.cache \ {Thread(t).subscription_id}
                             |-> billing_cache.cache[id]],
               !.threads[t].pc = "get_leaving",
               !.threads[t].read_at = billing_cache.now,
               !.threads[t].returns = <<PyNone>>]
        /\ UNCHANGED besidesBillingCache

\* _cache[subscription_id] = (amount_cents, time.time() + CACHE_TTL_SECONDS)
SetWrites ==
    \E t \in CallerThreads :
        /\ Thread(t).pc = "set_locked"
        /\ billing_cache' = [billing_cache EXCEPT
               !.cache = [id \in DOMAIN billing_cache.cache \cup {Thread(t).subscription_id}
                             |-> IF id = Thread(t).subscription_id
                                 THEN [amount |-> Thread(t).amount_cents,
                                       expires_at |-> billing_cache.now + CACHE_TTL_SECONDS]
                                 ELSE billing_cache.cache[id]],
               !.threads[t].pc = "set_leaving",
               !.threads[t].cached = <<[amount |-> Thread(t).amount_cents,
                                        expires_at |-> billing_cache.now + CACHE_TTL_SECONDS]>>]
        /\ UNCHANGED besidesBillingCache

\* get_subscription_amount leaves the with block and returns
GetReturns ==
    \E t \in CallerThreads :
        /\ Thread(t).pc = "get_leaving"
        /\ billing_cache' = [billing_cache EXCEPT !.lock = Unlocked, !.threads[t] = Idle]
        /\ UNCHANGED besidesBillingCache

\* set_subscription_amount leaves the with block and returns
SetReturns ==
    \E t \in CallerThreads :
        /\ Thread(t).pc = "set_leaving"
        /\ billing_cache' = [billing_cache EXCEPT
               !.lock = Unlocked,
               !.completed[Thread(t).subscription_id] = Thread(t).cached,
               !.threads[t] = Idle]
        /\ UNCHANGED besidesBillingCache

BillingNext ==
    \/ BillingClockTicks
    \/ GetCalled
    \/ SetCalled
    \/ LockAcquired
    \/ GetMisses
    \/ GetHits
    \/ GetReturnsAmount
    \/ GetDeletesExpired
    \/ SetWrites
    \/ GetReturns
    \/ SetReturns

BillingSpec == BillingInit /\ [][BillingNext]_vars

\* the threads about to return from get_subscription_amount
Getting == {t \in CallerThreads : billing_cache # <<>> /\ Thread(t).pc = "get_leaving"}

\* C30: under every interleaving of the two functions, what
\* get_subscription_amount(id) returns is None or the amount of the most
\* recent completed set_subscription_amount for that id, never the amount of
\* an entry whose expiration time (set time + 3600 s) had been reached when
\* the clock was read, and an expired entry that is read is removed from the
\* cache.
C30_CacheLinearizable ==
    \A t \in Getting :
        LET id == Thread(t).subscription_id
            last == billing_cache.completed[id]
        IN /\ Thread(t).returns # <<PyNone>> =>
                 /\ last # <<>>
                 /\ Thread(t).returns = <<PyInt(last[1].amount)>>
                 /\ Thread(t).read_at < last[1].expires_at
           /\ (last # <<>> /\ Thread(t).read_at >= last[1].expires_at) =>
                 /\ Thread(t).returns = <<PyNone>>
                 /\ id \notin DOMAIN billing_cache.cache

\* an entry read at its expiration time: None is returned and the entry is
\* gone
C30_Witness ==
    \E t \in Getting :
        /\ Thread(t).cached # <<>>
        /\ Thread(t).read_at = Thread(t).cached[1].expires_at
        /\ Thread(t).returns = <<PyNone>>
        /\ Thread(t).subscription_id \notin DOMAIN billing_cache.cache

====
